---- MODULE Spec2Model ----
(***************************************************************************)
(* metricfs: record-level filtering of JSONL files.                        *)
(*                                                                         *)
(* The module models the mapper (rule resolution, line evaluation), the    *)
(* indexer (BuildOrLoad, the index cache, FilterToWriter), the projector's *)
(* line streaming and the SpiceDB authorizer with its per-process cache.   *)
(*                                                                         *)
(* A source file is a sequence of bytes.  A byte is one of four symbols:   *)
(* "P" and "Q" each stand for the text of one JSON object, "CR" and "LF"   *)
(* are the carriage return and the line feed.  Offsets count symbols.      *)
(***************************************************************************)
EXTENDS Integers, Sequences, FiniteSets, TLC

\* ------------------------------------------------------------------ bounds
\* longest source file, in bytes
MaxLen == 3
\* largest modification time a source file takes
MaxMtime == 1
\* most remote checks that fail
MaxFails == 2
\* most files readers hold open in the mount at a time
MaxOpen == 2

VARIABLES
    source,     \* bytes of the source file sub/x.jsonl
    mtime,      \* its modification time (os.Stat ModTime().UnixNano())
    mapFiles,   \* directory -> mapping file found there, or NoFile
    cache,      \* the index directory: set of cache files
    fi,         \* the *FileIndex a caller holds from BuildOrLoad, or NoIndex
    stale,      \* the environment changed since fi was returned
    out,        \* what the last FilterToWriter / RenderFiltered did
    last,       \* what the last BuildOrLoad did
    \* one cache file at the level of its system calls
    cfile,      \* the file at the cache path: its bytes, or NoFile
    spc,        \* process -> where it is in BuildOrLoad
    soff,       \* process -> offset of its open file in save
    obs,        \* process -> what its last load found at the path
    \* the SpiceDB authorizer of one mount process
    azCache,    \* a.cache: candidate -> "allow", "deny", or "unset"
    oracle,     \* whether SpiceDB grants the subject the permission now
    pc,         \* handler -> where it is in IsAllowed
    val,        \* handler -> the answer checkRemote gave it
    ret,        \* the last return of IsAllowed
    reqs,       \* remote requests issued so far
    fails,      \* remote requests that failed so far
    overlapped, \* two calls of IsAllowed have run at the same time
    shown,      \* a call has returned true since the oracle last changed
    \* the mapper on its own
    res,        \* what the last ResolveRuleForFile did
    eval,       \* what the last EvaluateLine returned, and the one before it
    \* the projector
    fname,      \* the path of the file RenderFiltered is called for
    entries,    \* the entries of the archive, when that file is one
    \* the file-backed authorizer
    permFile,   \* the permissions file: its allow list, or NoFile
    authz,      \* the authorizer built from it, or NoCall
    answer,     \* the last call of its IsAllowed
    \* the mounted directory
    dirents,    \* the names os.ReadDir finds in the source directory
    node,       \* what the last Lookup returned
    listing,    \* what the last Readdir returned
    mnt,        \* MountAndServe: where it is, the context, the server
    \* the command line
    argv,       \* the arguments and the environment of one run of main
    code        \* the exit of that run with its status, or NoCall

idxVars == <<source, mtime, mapFiles, cache, fi, stale, out, last>>
saveVars == <<cfile, spc, soff, obs>>
authVars == <<azCache, oracle, pc, val, ret, reqs, fails, overlapped, shown>>
mapVars == <<res, eval, fname, entries>>
permVars == <<permFile, authz, answer>>
fsVars == <<dirents, node, listing, mnt>>
cmdVars == <<argv, code>>
runVars == <<permVars, fsVars, cmdVars>>
vars == <<idxVars, saveVars, authVars, mapVars, runVars>>

\* ------------------------------------------------------------ byte strings
Byte == {"P", "Q", "CR", "LF"}
\* the zero byte of a freshly made buffer
NUL == "NUL"
\* absent values: no mapping file, a nil *FileIndex, a nil *SelectedRule
NoFile == [nil |-> TRUE]
NoIndex == [nil |-> TRUE]
NoRule == [nil |-> TRUE]
NoOut == [nil |-> TRUE]
NoCall == [nil |-> TRUE]
None == "None"

Min(a, b) == IF a < b THEN a ELSE b
Max(a, b) == IF a > b THEN a ELSE b

RECURSIVE TrimRight(_, _)
TrimRight(s, cutset) ==
    IF Len(s) > 0 /\ s[Len(s)] \in cutset
    THEN TrimRight(SubSeq(s, 1, Len(s) - 1), cutset)
    ELSE s

RECURSIVE TrimLeft(_, _)
TrimLeft(s, cutset) ==
    IF Len(s) > 0 /\ s[1] \in cutset THEN TrimLeft(Tail(s), cutset) ELSE s

RECURSIVE Concat(_)
Concat(ss) == IF ss = <<>> THEN <<>> ELSE Head(ss) \o Concat(Tail(ss))

\* ---------------------------------------------------------------- records
\* The JSON documents the object symbols decode to.  A JSON number decodes
\* into a float64; the integers used are below 2^53 and decode exactly.
JStr(s) == [t |-> "str", v |-> s]
JObj(m) == [t |-> "obj", v |-> m]
JNull == [t |-> "null", v |-> None]

\* "%d" of a natural number: its decimal digits
Digit(n) == CASE n = 0 -> "0" [] n = 1 -> "1" [] n = 2 -> "2" [] n = 3 -> "3"
              [] n = 4 -> "4" [] n = 5 -> "5" [] n = 6 -> "6" [] n = 7 -> "7"
              [] n = 8 -> "8" [] OTHER -> "9"
RECURSIVE Itoa(_)
Itoa(n) == IF n < 10 THEN <<Digit(n)>> ELSE Itoa(n \div 10) \o <<Digit(n % 10)>>

\* the decimal digits of a natural number as one text
RECURSIVE FormatInt(_)
FormatInt(n) == IF n < 10 THEN Digit(n) ELSE FormatInt(n \div 10) \o Digit(n % 10)

\* The integers a record carries as its id, and the symbol of that record.
Numbers == {0, 7, 120, 999999, 1000000, 1234567, 120000000}

\* The symbols of the records: P and Q occur in source files; the others are
\* the records a single evaluation is examined on (a null id with and
\* without another key, a missing owner with a group, a blank group, the
\* values of P under the keys of the fallback paths, an integer id).
Objects == {"P", "Q", "N", "U", "G", "B", "K"} \cup {"I" \o FormatInt(n) : n \in Numbers}
Doc(b) ==
    IF b = "P" THEN JObj([id |-> JStr("r1"), owner |-> JStr("t1")])
    ELSE IF b = "Q" THEN JObj([id |-> JStr("r2")])
    ELSE IF b = "N" THEN JObj([id |-> JNull, key |-> JStr("k1")])
    ELSE IF b = "U" THEN JObj([id |-> JNull])
    ELSE IF b = "G" THEN JObj([id |-> JStr("r3"), group |-> JStr("g1")])
    ELSE IF b = "B" THEN JObj([id |-> JStr("r4"), group |-> JStr(" ")])
    ELSE IF b = "K" THEN JObj([key |-> JStr("r1"), group |-> JStr("t1")])
    ELSE JObj([id |-> [t |-> "num",
                       v |-> CHOOSE n \in Numbers : b = "I" \o FormatInt(n)]])

\* json.Unmarshal(line, &doc): JSON white space around the one value is
\* skipped; an empty line, two values on a line or white space inside fail.
Unmarshal(line) ==
    LET t == TrimLeft(TrimRight(line, {"CR", "LF"}), {"CR", "LF"})
    IN  IF Len(t) = 1 /\ t[1] \in Objects
        THEN [ok |-> TRUE, doc |-> Doc(t[1])]
        ELSE [ok |-> FALSE, doc |-> JNull]

\* ----------------------------------------------------------------- mapper
\* A pointer is its "/"-rooted flag and its reference tokens; a template is
\* a sequence of literal pieces and {placeholders}.  A map of the mapping
\* document (fields, fallback_paths) is the sequence of its <<key, value>>
\* pairs in the order the document lists them.  Extends names the directory
\* of the parent mapping file, "" when the document has no extends.
Ptr(rooted, parts) == [rooted |-> rooted, parts |-> parts]
Lit(s) == [ph |-> FALSE, s |-> s]
Ph(k) == [ph |-> TRUE, s |-> k]

RuleRow ==
    [Glob |-> "sub/*.jsonl", Decision |-> "", ObjectType |-> "row",
     Permission |-> "", MissingResourceKey |-> "",
     Mapper |-> [Kind |-> "json_pointer", Pointer |-> Ptr(TRUE, <<"id">>),
                 CanonicalTemplate |-> <<Lit("row:"), Ph("value")>>,
                 Fields |-> <<>>, Emit |-> <<>>, FallbackPaths |-> <<>>]]

RuleRowTenant ==
    [Glob |-> "*.jsonl", Decision |-> "all", ObjectType |-> "row",
     Permission |-> "read", MissingResourceKey |-> "deny",
     Mapper |-> [Kind |-> "multi_extract", Pointer |-> Ptr(FALSE, <<>>),
                 CanonicalTemplate |-> <<>>, Fields |-> <<>>,
                 FallbackPaths |-> <<>>,
                 Emit |-> << [ObjectType |-> "row", Permission |-> "",
                              Fields |-> << <<"rid", Ptr(TRUE, <<"id">>)>> >>,
                              CanonicalTemplate |-> <<Ph("rid")>>],
                             [ObjectType |-> "tenant", Permission |-> "read",
                              Fields |-> << <<"tid", Ptr(TRUE, <<"owner">>)>> >>,
                              CanonicalTemplate |-> <<Lit("tenant:"), Ph("tid")>>] >>]]

RuleCsv ==
    [Glob |-> "*.csv", Decision |-> "any", ObjectType |-> "row",
     Permission |-> "read", MissingResourceKey |-> "deny",
     Mapper |-> [Kind |-> "json_pointer", Pointer |-> Ptr(TRUE, <<"id">>),
                 CanonicalTemplate |-> <<Ph("value")>>,
                 Fields |-> <<>>, Emit |-> <<>>, FallbackPaths |-> <<>>]]

\* A multi_extract rule whose one emit entry reads two fields and that has
\* fallback paths, with its two maps listed in the given orders.
RuleOwnerOf(fields, fallback) ==
    [Glob |-> "*.jsonl", Decision |-> "any", ObjectType |-> "doc",
     Permission |-> "read", MissingResourceKey |-> "deny",
     Mapper |-> [Kind |-> "multi_extract", Pointer |-> Ptr(FALSE, <<>>),
                 CanonicalTemplate |-> <<>>, Fields |-> <<>>,
                 FallbackPaths |-> fallback,
                 Emit |-> << [ObjectType |-> "doc", Permission |-> "read",
                              Fields |-> fields,
                              CanonicalTemplate |-> <<Ph("a"), Lit("/"), Ph("b")>>] >>]]
RuleOwnerAB ==
    RuleOwnerOf(<< <<"a", Ptr(TRUE, <<"id">>)>>, <<"b", Ptr(TRUE, <<"owner">>)>> >>,
                << <<"a", <<Ptr(TRUE, <<"key">>)>> >>,
                   <<"b", <<Ptr(TRUE, <<"group">>), Ptr(TRUE, <<"id">>)>> >> >>)
RuleOwnerBA ==
    RuleOwnerOf(<<RuleOwnerAB.Mapper.Emit[1].Fields[2],
                  RuleOwnerAB.Mapper.Emit[1].Fields[1]>>,
                <<RuleOwnerAB.Mapper.FallbackPaths[2],
                  RuleOwnerAB.Mapper.FallbackPaths[1]>>)

\* Rules with a configuration error: an unknown decision, an invalid
\* missing_resource_key, an unsupported mapper kind, and pointers that do not
\* start with "/".
ConfigErrorRules ==
    {[RuleRow EXCEPT !.Decision = "maybe"],
     [RuleRow EXCEPT !.MissingResourceKey = "skip"],
     [RuleRow EXCEPT !.Mapper.Kind = "regex"],
     [RuleRow EXCEPT !.Mapper.Pointer = Ptr(FALSE, <<"id">>)],
     [RuleRowTenant EXCEPT
        !.Mapper.Emit = << [ObjectType |-> "row", Permission |-> "",
                            Fields |-> << <<"rid", Ptr(FALSE, <<"id">>)>> >>,
                            CanonicalTemplate |-> <<Ph("rid")>>] >>]}

\* a json_pointer rule with a fallback path for its placeholder
RuleKeyed ==
    [RuleRow EXCEPT
        !.Mapper.FallbackPaths = << <<"value", <<Ptr(TRUE, <<"key">>)>> >> >>]

\* A multi_extract rule with object_type row and permission write of its own,
\* whose emit entries repeat a candidate, vary each of its three parts, and
\* in the last entry set neither object_type nor permission.
RuleEmits ==
    LET Entry(objectType, permission, key) ==
            [ObjectType |-> objectType, Permission |-> permission,
             Fields |-> << <<"rid", Ptr(TRUE, <<key>>)>> >>,
             CanonicalTemplate |-> <<Ph("rid")>>]
    IN  [RuleRowTenant EXCEPT
            !.Decision = "any", !.Permission = "write",
            !.Mapper.Emit = <<Entry("row", "", "id"), Entry("row", "read", "id"),
                              Entry("row", "write", "id"), Entry("tenant", "read", "id"),
                              Entry("row", "", "owner"), Entry("row", "", "id"),
                              Entry("", "", "id")>>]

\* Contents a mapping file takes.
FileMain ==
    [nil |-> FALSE, Version |-> 1, Extends |-> "",
     Rules |-> <<RuleRow, RuleRowTenant>>]
FileCsv == [nil |-> FALSE, Version |-> 1, Extends |-> "", Rules |-> <<RuleCsv>>]
MapContents == {FileMain, FileCsv}

\* A mapping file with the given version, extends and rules.
MappingFile(version, extends, rules) ==
    [nil |-> FALSE, Version |-> version, Extends |-> extends, Rules |-> rules]

\* The mapping files the rule resolution is examined on: rule lists in both
\* orders, the same rule with its maps listed in both orders, and files that
\* extend the file of the source root or of the directory above it.
RuleFiles ==
    {MappingFile(1, "", rs) :
        rs \in {<<RuleRow, RuleRowTenant>>, <<RuleRowTenant, RuleRow>>,
                <<RuleCsv>>, <<RuleOwnerAB>>, <<RuleOwnerBA>>,
                <<[RuleRowTenant EXCEPT !.Glob = ""], RuleRow>>}}
    \cup {MappingFile(1, "root", <<RuleCsv>>), MappingFile(1, "top", <<RuleCsv>>),
          MappingFile(1, "root", <<RuleOwnerAB>>)}

\* resolveRootPointer(doc, ptr)
RECURSIVE WalkPointer(_, _)
WalkPointer(cur, parts) ==
    IF parts = <<>> THEN [ok |-> TRUE, val |-> cur]
    ELSE IF cur.t # "obj" THEN [ok |-> FALSE, val |-> JNull]
    ELSE IF Head(parts) \in DOMAIN cur.v
         THEN WalkPointer(cur.v[Head(parts)], Tail(parts))
         ELSE [ok |-> FALSE, val |-> JNull]

resolveRootPointer(doc, ptr) ==
    IF ~ptr.rooted THEN [ok |-> FALSE, val |-> JNull]
    ELSE WalkPointer(doc, ptr.parts)

\* strings.TrimSpace
RECURSIVE TrimSpace(_)
TrimSpace(s) ==
    IF Len(s) > 0 /\ SubSeq(s, 1, 1) = " " THEN TrimSpace(SubSeq(s, 2, Len(s)))
    ELSE IF Len(s) > 0 /\ SubSeq(s, Len(s), Len(s)) = " "
    THEN TrimSpace(SubSeq(s, 1, Len(s) - 1))
    ELSE s

\* the decimal digits of n without its trailing zeros
RECURSIVE TrimZeros(_)
TrimZeros(s) ==
    IF Len(s) > 1 /\ SubSeq(s, Len(s), Len(s)) = "0"
    THEN TrimZeros(SubSeq(s, 1, Len(s) - 1)) ELSE s

\* fmt.Sprintf("%v", f) of a float64 holding the integer n >= 0: the %g
\* format with the shortest precision, which is %e (d.ddde+xx, an exponent
\* of two digits at least) when the decimal exponent reaches 6, and %f
\* otherwise
FormatFloat(n) ==
    LET exp == Len(FormatInt(n)) - 1
        digs == TrimZeros(FormatInt(n))
    IN  IF n # 0 /\ exp >= 6
        THEN SubSeq(digs, 1, 1)
             \o (IF Len(digs) > 1 THEN "." \o SubSeq(digs, 2, Len(digs)) ELSE "")
             \o "e+" \o (IF exp < 10 THEN "0" ELSE "") \o FormatInt(exp)
        ELSE FormatInt(n)

\* fmt.Sprintf("%v", v)
Sprintv(v) ==
    IF v.t = "str" THEN v.v
    ELSE IF v.t = "null" THEN "<nil>"
    ELSE IF v.t = "num" THEN FormatFloat(v.v)
    ELSE "map[]"

\* strings.ReplaceAll(replaced, "{"+k+"}", fmt.Sprintf("%v", v)) for every
\* key of values
Substitute(tmpl, values) ==
    [i \in 1..Len(tmpl) |->
        IF tmpl[i].ph /\ tmpl[i].s \in DOMAIN values
        THEN Lit(Sprintv(values[tmpl[i].s]))
        ELSE tmpl[i]]

\* a fallback that takes the first pointer that resolves, blank or not
RECURSIVE FirstFallback_untrimmed(_, _)
FirstFallback_untrimmed(doc, ptrs) ==
    IF ptrs = <<>> THEN ""
    ELSE IF resolveRootPointer(doc, Head(ptrs)).ok
    THEN Sprintv(resolveRootPointer(doc, Head(ptrs)).val)
    ELSE FirstFallback_untrimmed(doc, Tail(ptrs))

\* the first pointer of ptrs that resolves in doc to a value whose text is
\* not blank: that text, or "" when there is none
RECURSIVE FirstFallback(_, _)
FirstFallback(doc, ptrs) ==
    IF ptrs = <<>> THEN ""
    ELSE LET Text(r) == IF r.ok THEN TrimSpace(Sprintv(r.val)) ELSE ""
             First(t) == IF t # "" THEN t ELSE FirstFallback(doc, Tail(ptrs))
         IN  First(Text(resolveRootPointer(doc, Head(ptrs))))

\* the loop over fallback in buildCandidate: a placeholder that is still in
\* the text is replaced by the first fallback value that is not blank
RECURSIVE ApplyFallback(_, _, _)
ApplyFallback(doc, fallback, replaced) ==
    IF fallback = <<>> THEN replaced
    ELSE LET key == Head(fallback)[1]
             Replace(t) ==
                 [i \in 1..Len(replaced) |->
                     IF replaced[i].ph /\ replaced[i].s = key /\ t # ""
                     THEN Lit(t) ELSE replaced[i]]
         IN  ApplyFallback(doc, Tail(fallback),
                           Replace(FirstFallback(doc, Head(fallback)[2])))

\* buildCandidate(objectType, permission, tmpl, values), a closure over the
\* document and the fallback paths of the rule
buildCandidate(doc, fallback, objectType, permission, tmpl, values) ==
    LET Candidate(replaced) ==
            LET unresolved == \E i \in 1..Len(replaced) : replaced[i].ph
                text == [i \in 1..Len(replaced) |-> replaced[i].s]
                id == IF Len(text) > 0 /\ text[1] = objectType \o ":"
                      THEN Tail(text) ELSE text
            IN  IF unresolved \/ id = <<>>
                THEN [ok |-> FALSE, cand |-> [ObjectType |-> "", ObjectID |-> <<>>,
                                              Permission |-> ""]]
                ELSE [ok |-> TRUE,
                      cand |-> [ObjectType |-> objectType, ObjectID |-> id,
                                Permission |-> IF permission = "" THEN "read"
                                               ELSE permission]]
    IN  Candidate(ApplyFallback(doc, fallback, Substitute(tmpl, values)))

\* The loop over e.Fields: the values an emit entry collects from its
\* fields, stopping at the first field the document does not resolve; a
\* pointer reached that does not start with "/" is an error.  The range loop
\* visits the pairs of the map in the order of the sequence fields.
RECURSIVE CollectFields(_, _, _)
CollectFields(doc, fields, vals) ==
    IF fields = <<>> THEN [err |-> FALSE, vals |-> vals]
    ELSE IF ~Head(fields)[2].rooted THEN [err |-> TRUE, vals |-> vals]
    ELSE LET r == resolveRootPointer(doc, Head(fields)[2])
         IN  IF ~r.ok THEN [err |-> FALSE, vals |-> vals]
             ELSE CollectFields(doc, Tail(fields),
                      [k \in DOMAIN vals \cup {Head(fields)[1]} |->
                          IF k = Head(fields)[1] THEN r.val ELSE vals[k]])

EmptyVals == [k \in {} |-> JNull]

\* the loop over ms.Emit, acc being the candidates (out) appended so far
RECURSIVE EmitAll(_, _, _, _)
EmitAll(doc, fallback, emits, acc) ==
    IF emits = <<>> THEN [err |-> FALSE, cands |-> acc]
    ELSE LET e == Head(emits)
             Add(c) == EmitAll(doc, fallback, Tail(emits),
                               IF c.ok THEN Append(acc, c.cand) ELSE acc)
             Emit(f) ==
                 IF f.err THEN [err |-> TRUE, cands |-> <<>>]
                 ELSE Add(buildCandidate(doc, fallback, e.ObjectType, e.Permission,
                                         e.CanonicalTemplate, f.vals))
         IN  Emit(CollectFields(doc, e.Fields, EmptyVals))

\* a de-duplication that takes two candidates of one object for the same
RECURSIVE Dedup_byObject(_, _)
Dedup_byObject(cs, seen) ==
    IF cs = <<>> THEN <<>>
    ELSE IF <<Head(cs).ObjectType, Head(cs).ObjectID>> \in seen
    THEN Dedup_byObject(Tail(cs), seen)
    ELSE <<Head(cs)>> \o Dedup_byObject(Tail(cs),
                            seen \cup {<<Head(cs).ObjectType, Head(cs).ObjectID>>})

\* the de-duplication loop at the end of EvaluateLine
RECURSIVE Dedup(_, _)
Dedup(cs, seen) ==
    IF cs = <<>> THEN <<>>
    ELSE IF Head(cs) \in seen THEN Dedup(Tail(cs), seen)
    ELSE <<Head(cs)>> \o Dedup(Tail(cs), seen \cup {Head(cs)})

\* EvaluateLine that reports a line that does not parse as an error
EvaluateLine_parseError(rule, line) ==
    LET ms == rule.Rule.Mapper
        One(r, c) == IF r.ok /\ c.ok
                     THEN [err |-> FALSE, cands |-> Dedup(<<c.cand>>, {})]
                     ELSE [err |-> FALSE, cands |-> <<>>]
        Pointed(doc, r) ==
            One(r, buildCandidate(doc, ms.FallbackPaths,
                                  rule.Rule.ObjectType, rule.Rule.Permission,
                                  ms.CanonicalTemplate, [value |-> r.val]))
        Emitted(r) == IF r.err THEN r ELSE [err |-> FALSE, cands |-> Dedup(r.cands, {})]
        Evaluate(u) ==
            IF ~u.ok THEN [err |-> TRUE, cands |-> <<>>]
            ELSE IF ms.Kind = "json_pointer"
            THEN IF ~ms.Pointer.rooted THEN [err |-> TRUE, cands |-> <<>>]
                 ELSE Pointed(u.doc, resolveRootPointer(u.doc, ms.Pointer))
            ELSE IF ms.Kind = "multi_extract"
            THEN Emitted(EmitAll(u.doc, ms.FallbackPaths, ms.Emit, <<>>))
            ELSE [err |-> TRUE, cands |-> <<>>]
    IN  Evaluate(Unmarshal(line))

\* EvaluateLine(rule, line): (candidates, error)
EvaluateLine(rule, line) ==
    LET ms == rule.Rule.Mapper
        One(r, c) == IF r.ok /\ c.ok
                     THEN [err |-> FALSE, cands |-> Dedup(<<c.cand>>, {})]
                     ELSE [err |-> FALSE, cands |-> <<>>]
        Pointed(doc, r) ==
            One(r, buildCandidate(doc, ms.FallbackPaths,
                                  rule.Rule.ObjectType, rule.Rule.Permission,
                                  ms.CanonicalTemplate, [value |-> r.val]))
        Emitted(r) == IF r.err THEN r ELSE [err |-> FALSE, cands |-> Dedup(r.cands, {})]
        Evaluate(u) ==
            IF ~u.ok THEN [err |-> FALSE, cands |-> <<>>]
            ELSE IF ms.Kind = "json_pointer"
            THEN IF ~ms.Pointer.rooted THEN [err |-> TRUE, cands |-> <<>>]
                 ELSE Pointed(u.doc, resolveRootPointer(u.doc, ms.Pointer))
            ELSE IF ms.Kind = "multi_extract"
            THEN Emitted(EmitAll(u.doc, ms.FallbackPaths, ms.Emit, <<>>))
            ELSE [err |-> TRUE, cands |-> <<>>]
    IN  Evaluate(Unmarshal(line))

\* ------------------------------------------------------- rule resolution
\* The directories from the file's own up to the filesystem root: the file is
\* root/sub/x.jsonl, "root" is the configured source directory's usual place
\* and "top" is its parent, the filesystem root.
Dirs == {"sub", "root"}
AllDirs == {"sub", "root", "top"}
ParentDir(d) == IF d = "sub" THEN "root" ELSE "top"

\* filepath.Rel(filepath.Dir(mapperPath), absFile), forward slashes, for the
\* file of that name in root/sub
RelToMapper(d, name) ==
    IF d = "sub" THEN name
    ELSE IF d = "root" THEN "sub/" \o name ELSE "root/sub/" \o name
BaseName == "x.jsonl"

\* doublestar.Match(glob, name) on the globs and names of this model: "*"
\* matches within one path segment
Match(glob, name) ==
    \/ glob = "*.jsonl" /\ name = "x.jsonl"
    \/ glob = "sub/*.jsonl" /\ name = "sub/x.jsonl"
    \/ glob = "*.csv" /\ name = "x.csv"

defaults(cfg) ==
    [cfg EXCEPT !.MissingMapperMode = IF @ = "" THEN "deny" ELSE @,
                !.DefaultMissingKey = IF @ = "" THEN "deny" ELSE @]

\* the walk without its stop at the source root
RECURSIVE FindMapper_noRootStop(_, _, _)
FindMapper_noRootStop(files, dir, sourceDir) ==
    IF ~files[dir].nil THEN dir
    ELSE IF dir = ParentDir(dir) THEN None
    ELSE FindMapper_noRootStop(files, ParentDir(dir), sourceDir)

\* the walk from the file's directory towards the source root
RECURSIVE FindMapper(_, _, _)
FindMapper(files, dir, sourceDir) ==
    IF ~files[dir].nil THEN dir
    ELSE IF dir = sourceDir \/ dir = ParentDir(dir) THEN None
    ELSE FindMapper(files, ParentDir(dir), sourceDir)

\* The map keys of this model in the order of sort.Strings, which is also the
\* order in which encoding/json writes the keys of a map.
KeyOrder == <<"a", "b", "rid", "tid", "value">>

\* sortedMap, sortedSliceMap and the map encoder of json.Marshal: the pairs
\* of a map by ascending key
SortPairs(m) ==
    LET KeyRank(k) == CHOOSE i \in 1..Len(KeyOrder) : KeyOrder[i] = k
    IN  IF Len(m) < 2 THEN m
        ELSE [i \in 1..Len(m) |->
                CHOOSE p \in {m[j] : j \in 1..Len(m)} :
                    Cardinality({j \in 1..Len(m) :
                                    KeyRank(m[j][1]) < KeyRank(p[1])}) = i - 1]

RECURSIVE Join(_, _)
Join(ss, sep) ==
    IF ss = <<>> THEN ""
    ELSE IF Len(ss) = 1 THEN ss[1]
    ELSE ss[1] \o sep \o Join(Tail(ss), sep)

\* json.Marshal of a map[string]string with its keys in document order
MarshalFields_documentOrder(m) == m

\* json.Marshal of a map[string]string: its entries by ascending key (<<>>
\* is the nil map of a document without the key, written as null)
MarshalFields(m) == SortPairs(m)

\* json.Marshal of a MappingRule: the document of its fields in declaration
\* order, the fields map of the mapper and of every emit entry and the
\* fallback_paths map written by ascending key
MarshalRule(r) ==
    [r EXCEPT !.Mapper.Fields = MarshalFields(r.Mapper.Fields),
              !.Mapper.FallbackPaths = SortPairs(r.Mapper.FallbackPaths),
              !.Mapper.Emit =
                  [i \in 1..Len(r.Mapper.Emit) |->
                      [r.Mapper.Emit[i] EXCEPT
                          !.Fields = MarshalFields(r.Mapper.Emit[i].Fields)]]]

\* canonicalRules(rules): the JSON document of the rule sequence
canonicalRules(rules) == [i \in 1..Len(rules) |-> MarshalRule(rules[i])]

\* The mapping files RenderFiltered is examined on: files without an error,
\* and one file for each configuration error (the last extends itself).
ConfigErrorFiles ==
    {MappingFile(2, "", <<RuleRow>>), MappingFile(1, "root", <<RuleRow>>)}
        \cup {MappingFile(1, "", <<r>>) : r \in ConfigErrorRules}
RenderFiles ==
    {FileMain, FileCsv, MappingFile(1, "", <<RuleRowTenant>>)} \cup ConfigErrorFiles

\* The mapping files a single evaluation is examined under.
EvalFiles ==
    {MappingFile(1, "", <<r>>) :
        r \in {RuleRow, RuleRowTenant, RuleKeyed, RuleOwnerAB, RuleOwnerBA, RuleEmits}}

\* hex.EncodeToString(sha1.Sum(canonical)): one digest per document (SHA-1
\* is taken to be free of collisions).  A rule hash is a text in pieces: the
\* digest of a document, or the one piece "passthrough".
RuleHashOf(rules) == <<"sha1", canonicalRules(rules)>>

\* loadRules with the rules of the parent put before the local ones
RECURSIVE loadRules_parentFirst(_, _, _, _)
loadRules_parentFirst(files, dir, inherit, seen) ==
    LET mf == files[dir]
        failed == [err |-> TRUE, rules |-> <<>>, hash |-> <<>>]
    IN  IF dir \in seen THEN failed
        ELSE IF mf.nil THEN failed
        ELSE IF mf.Version # 1 THEN failed
        ELSE IF inherit /\ mf.Extends # ""
        THEN LET parent == loadRules_parentFirst(files, mf.Extends, inherit,
                                                 seen \cup {dir})
             IN  IF parent.err THEN failed
                 ELSE [err |-> FALSE, rules |-> parent.rules \o mf.Rules,
                       hash |-> RuleHashOf(parent.rules \o mf.Rules)]
        ELSE [err |-> FALSE, rules |-> mf.Rules, hash |-> RuleHashOf(mf.Rules)]

\* loadRules that ends the chain at a file it has seen, without an error
RECURSIVE loadRules_cycleEnds(_, _, _, _)
loadRules_cycleEnds(files, dir, inherit, seen) ==
    LET mf == files[dir]
        failed == [err |-> TRUE, rules |-> <<>>, hash |-> <<>>]
    IN  IF dir \in seen THEN [err |-> FALSE, rules |-> <<>>, hash |-> RuleHashOf(<<>>)]
        ELSE IF mf.nil THEN failed
        ELSE IF mf.Version # 1 THEN failed
        ELSE IF inherit /\ mf.Extends # ""
        THEN LET parent == loadRules_cycleEnds(files, mf.Extends, inherit,
                                               seen \cup {dir})
             IN  IF parent.err THEN failed
                 ELSE [err |-> FALSE, rules |-> mf.Rules \o parent.rules,
                       hash |-> RuleHashOf(mf.Rules \o parent.rules)]
        ELSE [err |-> FALSE, rules |-> mf.Rules, hash |-> RuleHashOf(mf.Rules)]

\* loadRules(path, inherit, seen) for the mapping file of directory dir
RECURSIVE loadRules(_, _, _, _)
loadRules(files, dir, inherit, seen) ==
    LET mf == files[dir]
        failed == [err |-> TRUE, rules |-> <<>>, hash |-> <<>>]
    IN  IF dir \in seen THEN failed
        ELSE IF mf.nil THEN failed
        ELSE IF mf.Version # 1 THEN failed
        ELSE IF inherit /\ mf.Extends # ""
        THEN LET parent == loadRules(files, mf.Extends, inherit, seen \cup {dir})
             IN  IF parent.err THEN failed
                 ELSE [err |-> FALSE, rules |-> mf.Rules \o parent.rules,
                       hash |-> RuleHashOf(mf.Rules \o parent.rules)]
        ELSE [err |-> FALSE, rules |-> mf.Rules, hash |-> RuleHashOf(mf.Rules)]

\* the selection loop that reports no error when no rule matches
RECURSIVE SelectRule_noDeny(_, _, _, _, _)
SelectRule_noDeny(name, rules, dir, hash, cfg) ==
    IF rules = <<>> THEN [err |-> FALSE, rule |-> NoRule]
    ELSE LET r == Head(rules)
             decision == IF r.Decision = "" THEN "any" ELSE r.Decision
             missing == IF r.MissingResourceKey = "" THEN cfg.DefaultMissingKey
                        ELSE r.MissingResourceKey
         IN  IF r.Glob = "" \/ (~Match(r.Glob, RelToMapper(dir, name)) /\ ~Match(r.Glob, name))
             THEN SelectRule_noDeny(name, Tail(rules), dir, hash, cfg)
             ELSE IF decision \notin {"any", "all"} \/ missing \notin {"deny", "ignore"}
             THEN [err |-> TRUE, rule |-> NoRule]
             ELSE [err |-> FALSE,
                   rule |-> [nil |-> FALSE, Decision |-> decision,
                             MissingResourceKey |-> missing,
                             Rule |-> r, RuleHash |-> hash]]

\* the selection loop of ResolveRuleForFile
RECURSIVE SelectRule(_, _, _, _, _)
SelectRule(name, rules, dir, hash, cfg) ==
    IF rules = <<>>
    THEN IF cfg.MissingMapperMode = "deny" THEN [err |-> TRUE, rule |-> NoRule]
         ELSE [err |-> FALSE, rule |-> NoRule]
    ELSE LET r == Head(rules)
             decision == IF r.Decision = "" THEN "any" ELSE r.Decision
             missing == IF r.MissingResourceKey = "" THEN cfg.DefaultMissingKey
                        ELSE r.MissingResourceKey
         IN  IF r.Glob = "" \/ (~Match(r.Glob, RelToMapper(dir, name)) /\ ~Match(r.Glob, name))
             THEN SelectRule(name, Tail(rules), dir, hash, cfg)
             ELSE IF decision \notin {"any", "all"} \/ missing \notin {"deny", "ignore"}
             THEN [err |-> TRUE, rule |-> NoRule]
             ELSE [err |-> FALSE,
                   rule |-> [nil |-> FALSE, Decision |-> decision,
                             MissingResourceKey |-> missing,
                             Rule |-> r, RuleHash |-> hash]]

\* ResolveRuleForFile(filePath, cfg) for the file of that name in root/sub:
\* (rule or NoRule, error)
ResolveRuleForFile(name, files, cfg0) ==
    LET cfg == defaults(cfg0)
        dir == FindMapper(files, "sub", cfg.SourceDir)
    IN  IF dir = None
        THEN IF cfg.MissingMapperMode = "deny" THEN [err |-> TRUE, rule |-> NoRule]
             ELSE [err |-> FALSE, rule |-> NoRule]
        ELSE LET l == loadRules(files, dir, cfg.InheritParent, {})
             IN  IF l.err THEN [err |-> TRUE, rule |-> NoRule]
                 ELSE SelectRule(name, l.rules, dir, l.hash, cfg)

\* ---------------------------------------------------------------- indexer
\* br.ReadBytes('\n'): the bytes up to and including the first LF, or all
ReadBytes(src) ==
    IF \E i \in 1..Len(src) : src[i] = "LF"
    THEN SubSeq(src, 1, CHOOSE i \in 1..Len(src) :
                            src[i] = "LF" /\ \A j \in 1..(i - 1) : src[j] # "LF")
    ELSE src

\* build with line ends that leave the terminator out
RECURSIVE BuildLines_noTerminator(_, _, _)
BuildLines_noTerminator(src, offset, rule) ==
    IF src = <<>> THEN <<>>
    ELSE LET chunk == ReadBytes(src)
             ev == EvaluateLine(rule, TrimRight(chunk, {"CR", "LF"}))
         IN  << [Start |-> offset,
                 End |-> offset + Len(TrimRight(chunk, {"CR", "LF"})),
                 Decision |-> rule.Decision,
                 Candidates |-> IF ev.err THEN <<>> ELSE ev.cands] >>
             \o BuildLines_noTerminator(SubSeq(src, Len(chunk) + 1, Len(src)),
                                        offset + Len(chunk), rule)

\* the loop of build: one LineIndex per chunk
RECURSIVE BuildLines(_, _, _)
BuildLines(src, offset, rule) ==
    IF src = <<>> THEN <<>>
    ELSE LET chunk == ReadBytes(src)
             end == offset + Len(chunk)
             ev == EvaluateLine(rule, TrimRight(chunk, {"CR", "LF"}))
         IN  << [Start |-> offset, End |-> end, Decision |-> rule.Decision,
                 Candidates |-> IF ev.err THEN <<>> ELSE ev.cands] >>
             \o BuildLines(SubSeq(src, Len(chunk) + 1, Len(src)), end, rule)

\* build(sourcePath, st, rule)
build(sourcePath, src, mt, rule) ==
    [nil |-> FALSE, SourcePath |-> sourcePath, Size |-> Len(src), MtimeUnix |-> mt,
     RuleHash |-> rule.RuleHash, Passthrough |-> FALSE,
     Lines |-> BuildLines(src, 0, rule)]

PassthroughIndex(sourcePath, src, mt) ==
    [nil |-> FALSE, SourcePath |-> sourcePath, Size |-> Len(src), MtimeUnix |-> mt,
     RuleHash |-> <<"passthrough">>, Passthrough |-> TRUE, Lines |-> <<>>]

\* the cache key without the modification time
cacheFilePath_noMtime(sourcePath, size, mt, ruleHash, formatVersion) ==
    Itoa(formatVersion) \o <<"|">> \o sourcePath \o <<"|">> \o Itoa(size)
        \o <<"|", ruleHash>>

\* fmt.Sprintf("%d|%s|%d|%d|%s", ...) as a string of characters, and the
\* file name in the index directory made from its SHA-1 (one name per string)
cacheFilePath(sourcePath, size, mt, ruleHash, formatVersion) ==
    Itoa(formatVersion) \o <<"|">> \o sourcePath \o <<"|">> \o Itoa(size)
        \o <<"|">> \o Itoa(mt) \o <<"|", ruleHash>>

\* load(path): the index in the cache file of that name
load(dir, path) ==
    IF \E e \in dir : e.name = path
    THEN [err |-> FALSE, fi |-> (CHOOSE e \in dir : e.name = path).data]
    ELSE [err |-> TRUE, fi |-> NoIndex]

\* save(path, fi): the directory afterwards; fv is kept for the record only
save(dir, path, index, fv) ==
    {e \in dir : e.name # path} \cup {[name |-> path, data |-> index, fv |-> fv]}

\* A path is the sequence of its pieces: "/" separators, directory names, and
\* for the file its stem followed by its dot-suffixes.
\* filepath.Base(path): the text after the last separator
RECURSIVE Base(_)
Base(path) ==
    IF \E i \in 1..Len(path) : path[i] = "/" THEN Base(Tail(path))
    ELSE Join(path, "")

\* BuildOrLoad(sourcePath, opts) on the file (src, mt) with the mapping files
\* and the index directory as they are; saved tells whether save succeeds
BuildOrLoad(sourcePath, opts, src, mt, files, dir, saved) ==
    LET rr == ResolveRuleForFile(Base(sourcePath), files,
                  [SourceDir |-> opts.SourceDir,
                   InheritParent |-> opts.MapperInherit,
                   MissingMapperMode |-> opts.MissingMapperMode,
                   DefaultMissingKey |-> opts.MissingResource])
        formatVersion == IF opts.FormatVersion <= 0 THEN 1 ELSE opts.FormatVersion
        ruleHash == IF rr.rule.nil THEN <<"passthrough">> ELSE rr.rule.RuleHash
        cachePath == cacheFilePath(sourcePath, Len(src), mt, ruleHash, formatVersion)
        hit == IF opts.IndexDir = "" THEN [err |-> TRUE, fi |-> NoIndex]
               ELSE load(dir, cachePath)
        built == IF rr.rule.nil THEN PassthroughIndex(sourcePath, src, mt)
                 ELSE build(sourcePath, src, mt, rr.rule)
    IN  IF rr.err THEN [err |-> TRUE, fi |-> NoIndex, loaded |-> FALSE, dir |-> dir]
        ELSE IF ~hit.err THEN [err |-> FALSE, fi |-> hit.fi, loaded |-> TRUE, dir |-> dir]
        ELSE [err |-> FALSE, fi |-> built, loaded |-> FALSE,
              dir |-> IF opts.IndexDir # "" /\ saved
                      THEN save(dir, cachePath, built, formatVersion) ELSE dir]

\* SetAuthorizer.IsAllowed: az is the set of allowed keys
IsAllowed(az, c) == c \in az

\* isVisible(ln, az)
RECURSIVE AllAllowed(_, _)
AllAllowed(cs, az) ==
    IF cs = <<>> THEN TRUE
    ELSE IF ~IsAllowed(az, Head(cs)) THEN FALSE ELSE AllAllowed(Tail(cs), az)

RECURSIVE AnyAllowed(_, _)
AnyAllowed(cs, az) ==
    IF cs = <<>> THEN FALSE
    ELSE IF IsAllowed(az, Head(cs)) THEN TRUE ELSE AnyAllowed(Tail(cs), az)

\* isVisible without its test for an empty candidate list
isVisible_noEmptyTest(ln, az) ==
    IF ln.Decision = "all" THEN AllAllowed(ln.Candidates, az)
    ELSE AnyAllowed(ln.Candidates, az)

isVisible(ln, az) ==
    IF Len(ln.Candidates) = 0 THEN FALSE
    ELSE IF ln.Decision = "all" THEN AllAllowed(ln.Candidates, az)
    ELSE AnyAllowed(ln.Candidates, az)

\* isVisibleLine(rule, line, az) of the projector
isVisibleLine(rule, line, az) ==
    IF rule.nil THEN TRUE
    ELSE LET ev == EvaluateLine(rule, line)
         IN  IF ev.err THEN FALSE
             ELSE IF Len(ev.cands) = 0 THEN FALSE
             ELSE IF rule.Decision = "all" THEN AllAllowed(ev.cands, az)
             ELSE AnyAllowed(ev.cands, az)

\* f.ReadAt(buf, start) into buf := make([]byte, sz): a short read at the end
\* of the file leaves the rest of buf zero and reports io.EOF
ReadAt(src, start, sz) ==
    [i \in 1..sz |-> IF start + i <= Len(src) THEN src[start + i] ELSE NUL]

\* the loop of FilterToWriter; io.EOF from ReadAt is not an error there
RECURSIVE FilterLines(_, _, _)
FilterLines(lines, src, az) ==
    IF lines = <<>> THEN <<>>
    ELSE LET ln == Head(lines)
             sz == ln.End - ln.Start
         IN  (IF isVisible(ln, az) /\ sz > 0 THEN ReadAt(src, ln.Start, sz) ELSE <<>>)
             \o FilterLines(Tail(lines), src, az)

\* FilterToWriter that filters by the lines of the index in every case
FilterToWriter_alwaysFilter(index, src, az) == FilterLines(index.Lines, src, az)

\* FilterToWriter(fi, az, w): the bytes written to w
FilterToWriter(index, src, az) ==
    IF index.Passthrough THEN src ELSE FilterLines(index.Lines, src, az)

\* -------------------------------------------------------------- projector
\* strings.ToLower, strings.HasSuffix and strings.TrimSuffix on a path
LowerPath(path) ==
    [i \in 1..Len(path) |->
        CASE path[i] = ".JSONL" -> ".jsonl" [] path[i] = ".GZ" -> ".gz"
          [] path[i] = ".TAR" -> ".tar" [] OTHER -> path[i]]
HasSuffix(path, suffix) ==
    /\ Len(path) >= Len(suffix)
    /\ SubSeq(path, Len(path) - Len(suffix) + 1, Len(path)) = suffix
TrimSuffix(path, suffix) ==
    IF HasSuffix(path, suffix) THEN SubSeq(path, 1, Len(path) - Len(suffix))
    ELSE path

\* virtualPathForRule(sourcePath)
virtualPathForRule(sourcePath) ==
    IF HasSuffix(LowerPath(sourcePath), <<".jsonl", ".gz">>)
    THEN TrimSuffix(sourcePath, <<".gz">>)
    ELSE IF HasSuffix(LowerPath(sourcePath), <<".jsonl", ".tar", ".gz">>)
    THEN TrimSuffix(sourcePath, <<".tar", ".gz">>)
    ELSE sourcePath

\* streamJSONLLines that writes the trimmed line
RECURSIVE streamJSONLLines_trimmed(_, _, _)
streamJSONLLines_trimmed(r, rule, az) ==
    IF r = <<>> THEN <<>>
    ELSE LET line == ReadBytes(r)
         IN  (IF isVisibleLine(rule, TrimRight(line, {"CR", "LF"}), az)
              THEN TrimRight(line, {"CR", "LF"}) ELSE <<>>)
             \o streamJSONLLines_trimmed(SubSeq(r, Len(line) + 1, Len(r)), rule, az)

\* streamJSONLLines(r, rule, az, w): the bytes written to w from the decoded
\* stream r
RECURSIVE streamJSONLLines(_, _, _)
streamJSONLLines(r, rule, az) ==
    IF r = <<>> THEN <<>>
    ELSE LET line == ReadBytes(r)
         IN  (IF isVisibleLine(rule, TrimRight(line, {"CR", "LF"}), az)
              THEN line ELSE <<>>)
             \o streamJSONLLines(SubSeq(r, Len(line) + 1, Len(r)), rule, az)

\* renderGzipJSONL: src is what the gzip stream of the file decodes to
renderGzipJSONL(src, rule, az) == streamJSONLLines(src, rule, az)

\* renderTarGzipJSONL: ents are the entries of the decoded archive, each
\* with its type flag, its name and its data
RECURSIVE renderTarGzipJSONL(_, _, _)
renderTarGzipJSONL(ents, rule, az) ==
    IF ents = <<>> THEN <<>>
    ELSE LET hdr == Head(ents)
         IN  (IF hdr.Typeflag # "TypeReg" THEN <<>>
              ELSE IF ~HasSuffix(LowerPath(hdr.Name), <<".jsonl">>) THEN <<>>
              ELSE streamJSONLLines(hdr.Data, rule, az))
             \o renderTarGzipJSONL(Tail(ents), rule, az)

\* RenderFiltered(sourcePath, opts, az, w) on the file whose content is src
\* (for a gzip file: what it decodes to) or, for an archive, the entries
\* ents: the error, the bytes written to w and the index directory afterwards
RenderFiltered(sourcePath, opts, src, ents, mt, files, dir, saved, az) ==
    LET lower == LowerPath(sourcePath)
        r == BuildOrLoad(sourcePath, opts, src, mt, files, dir, saved)
        rr == ResolveRuleForFile(Base(virtualPathForRule(sourcePath)), files,
                  [SourceDir |-> opts.SourceDir,
                   InheritParent |-> opts.MapperInherit,
                   MissingMapperMode |-> opts.MissingMapperMode,
                   DefaultMissingKey |-> opts.MissingResource])
        failed == [err |-> TRUE, bytes |-> <<>>, dir |-> dir]
    IN  IF HasSuffix(lower, <<".jsonl">>)
        THEN IF r.err THEN failed
             ELSE [err |-> FALSE, bytes |-> FilterToWriter(r.fi, src, az),
                   dir |-> r.dir]
        ELSE IF rr.err THEN failed
        ELSE IF HasSuffix(lower, <<".jsonl", ".gz">>)
        THEN [err |-> FALSE, bytes |-> renderGzipJSONL(src, rr.rule, az), dir |-> dir]
        ELSE IF HasSuffix(lower, <<".jsonl", ".tar", ".gz">>)
        THEN [err |-> FALSE, bytes |-> renderTarGzipJSONL(ents, rr.rule, az),
              dir |-> dir]
        ELSE failed

\* ------------------------------------------------------------ environment
\* The authorization keys the rules of this model produce, and the static
\* authorizers (sets of allowed keys) over them.
Key(t, id) == [ObjectType |-> t, ObjectID |-> <<id>>, Permission |-> "read"]
Keys == {Key("row", "r1"), Key("row", "r2"), Key("tenant", "t1")}
Authorizers == SUBSET Keys

\* two spellings of the path of the one source file
PathX == <<"x", ".jsonl">>
PathDotX == <<".", "/", "x", ".jsonl">>

Options(mode, indexDir, formatVersion) ==
    [SourceDir |-> "root", MapperInherit |-> FALSE,
     MissingMapperMode |-> mode, MissingResource |-> "",
     IndexDir |-> indexDir, FormatVersion |-> formatVersion]

\* the processes that share the index directory: a warm-index run and a mount
Procs == {"warm", "mount"}
\* the request handlers of one mount
Threads == {"h1", "h2"}
\* the candidate the handlers ask about
AuthKey == Key("row", "r1")
AuthKeys == {AuthKey}

\* no permissions file, no mount and no command line
InitRun ==
    /\ permFile = NoFile
    /\ authz = NoCall
    /\ answer = NoCall
    /\ dirents = {}
    /\ node = NoCall
    /\ listing = NoCall
    /\ mnt = NoCall
    /\ argv = NoCall
    /\ code = NoCall

\* nothing has run yet: an empty source file, no mapping file in any of the
\* directories dirs, an empty index directory, an empty authorizer cache
InitBase ==
    /\ mtime = 0
    /\ cache = {}
    /\ fi = NoIndex
    /\ stale = FALSE
    /\ out = NoOut
    /\ last = NoCall
    /\ cfile = NoFile
    /\ spc = [p \in Procs |-> "idle"]
    /\ soff = [p \in Procs |-> 0]
    /\ obs = [p \in Procs |-> "none"]
    /\ azCache = [k \in AuthKeys |-> "unset"]
    /\ oracle = FALSE
    /\ pc = [t \in Threads |-> "idle"]
    /\ val = [t \in Threads |-> FALSE]
    /\ ret = [t |-> "h1", val |-> FALSE, src |-> "none", n |-> 0]
    /\ reqs = 0
    /\ fails = 0
    /\ overlapped = FALSE
    /\ shown = FALSE
    /\ res = NoCall
    /\ eval = NoCall

InitRest ==
    /\ InitRun
    /\ InitBase

InitOn(dirs) ==
    /\ source = <<>>
    /\ mapFiles = [d \in dirs |-> NoFile]
    /\ fname = PathX
    /\ entries = <<>>
    /\ InitRest

Init == InitOn(Dirs)

\* A change of the environment happens while no call is running; a caller
\* that holds an index sees at most one change before it uses the index.
EnvStep(mayStale) ==
    /\ out.nil
    /\ fi.nil \/ (mayStale /\ ~stale)
    /\ stale' = ~fi.nil
    /\ last' = NoCall
    /\ UNCHANGED <<cache, fi, out, saveVars, authVars, mapVars, runVars>>

\* a write to the source keeps its modification time (keep) or advances it
Touch(keeps) ==
    \E keep \in keeps :
        IF keep THEN mtime' = mtime
        ELSE mtime < MaxMtime /\ mtime' = mtime + 1

SourceAppend(bytes, keeps, mayStale) ==
    \E b \in bytes :
        /\ Len(source) < MaxLen
        /\ source' = Append(source, b)
        /\ Touch(keeps)
        /\ EnvStep(mayStale)
        /\ UNCHANGED mapFiles

SourceTruncate(keeps, mayStale) ==
    /\ Len(source) > 0
    /\ source' = SubSeq(source, 1, Len(source) - 1)
    /\ Touch(keeps)
    /\ EnvStep(mayStale)
    /\ UNCHANGED mapFiles

SourceOverwrite(bytes, keeps, mayStale) ==
    \E i \in 1..Len(source), b \in bytes :
        /\ source[i] # b
        /\ source' = [source EXCEPT ![i] = b]
        /\ Touch(keeps)
        /\ EnvStep(mayStale)
        /\ UNCHANGED mapFiles

MapWrite(mayStale) ==
    \E d \in Dirs, c \in MapContents :
        /\ mapFiles[d] # c
        /\ mapFiles' = [mapFiles EXCEPT ![d] = c]
        /\ EnvStep(mayStale)
        /\ UNCHANGED <<source, mtime>>

MapRemove(mayStale) ==
    \E d \in Dirs :
        /\ ~mapFiles[d].nil
        /\ mapFiles' = [mapFiles EXCEPT ![d] = NoFile]
        /\ EnvStep(mayStale)
        /\ UNCHANGED <<source, mtime>>

\* one call of BuildOrLoad; the index directory holds one file at most, so
\* a save of a second file fails (the error of save is dropped by the code)
BuildOrLoadAct(paths, modes, indexDirs, versions) ==
    \E p \in paths, mode \in modes, idir \in indexDirs, fv \in versions,
       saved \in BOOLEAN :
        LET r == BuildOrLoad(p, Options(mode, idir, fv), source, mtime,
                             mapFiles, cache, saved)
        IN  /\ out.nil
            /\ saved => (idir # "" /\ Cardinality(r.dir) <= 1)
            /\ fi' = r.fi
            /\ cache' = r.dir
            /\ stale' = FALSE
            /\ last' = [nil |-> FALSE, err |-> r.err, loaded |-> r.loaded,
                        path |-> p, mode |-> mode,
                        fv |-> IF fv <= 0 THEN 1 ELSE fv]
            /\ UNCHANGED <<source, mtime, mapFiles, out, saveVars, authVars, mapVars, runVars>>

\* FilterToWriter(fi, az, w) on the index the caller holds
FilterToWriterAct(azs) ==
    \E az \in azs :
        /\ ~fi.nil
        /\ out.nil
        /\ out' = [nil |-> FALSE, bytes |-> FilterToWriter(fi, source, az), az |-> az]
        /\ UNCHANGED <<source, mtime, mapFiles, cache, fi, stale, last>>
        /\ UNCHANGED <<saveVars, authVars, mapVars, runVars>>

\* the caller drops its index and its output
Release ==
    /\ ~fi.nil \/ ~out.nil \/ ~last.nil
    /\ fi' = NoIndex
    /\ out' = NoOut
    /\ last' = NoCall
    /\ stale' = FALSE
    /\ UNCHANGED <<source, mtime, mapFiles, cache, saveVars, authVars, mapVars, runVars>>

\* the files of the index directory are removed
CacheClear ==
    /\ cache # {}
    /\ fi.nil /\ out.nil
    /\ cache' = {}
    /\ last' = NoCall
    /\ UNCHANGED <<source, mtime, mapFiles, fi, stale, out, saveVars, authVars, mapVars, runVars>>

\* ---- the indexer without an index directory (index-dir ""), each index
\* used before the environment changes again; the modification time matters
\* to the index cache only and stays as it is here
Next ==
    \/ SourceAppend(Byte, {TRUE}, FALSE)
    \/ SourceTruncate({TRUE}, FALSE)
    \/ SourceOverwrite(Byte, {TRUE}, FALSE)
    \/ MapWrite(FALSE)
    \/ MapRemove(FALSE)
    \/ BuildOrLoadAct({PathX}, {"", "passthrough"}, {""}, {0})
    \/ FilterToWriterAct(Authorizers)
    \/ Release

Spec == Init /\ [][Next]_vars

\* ---- the same with a caller that holds its index across one change of the
\* environment (a write between BuildOrLoad and FilterToWriter)
NextHeld ==
    \/ SourceAppend({"P", "LF"}, {TRUE}, TRUE)
    \/ SourceTruncate({TRUE}, TRUE)
    \/ SourceOverwrite({"P", "LF"}, {TRUE}, TRUE)
    \/ MapWrite(TRUE)
    \/ MapRemove(TRUE)
    \/ BuildOrLoadAct({PathX}, {"passthrough"}, {""}, {0})
    \/ FilterToWriterAct({{}, {Key("row", "r1")}, Keys})
    \/ Release

SpecHeld == Init /\ [][NextHeld]_vars

\* ------------------------------------------------- properties of the indexer
\* the rule the mapping files resolve for the source file now
CurrentRule ==
    ResolveRuleForFile(BaseName, mapFiles,
                                 [SourceDir |-> "root",
                                  InheritParent |-> FALSE,
                                  MissingMapperMode |-> "passthrough",
                                  DefaultMissingKey |-> ""])

\* the lines of a file with their terminators
RECURSIVE SplitLines(_)
SplitLines(src) ==
    IF src = <<>> THEN <<>>
    ELSE <<ReadBytes(src)>> \o SplitLines(SubSeq(src, Len(ReadBytes(src)) + 1, Len(src)))

\* the bytes of the file at offsets [start, end)
SourceRange(src, start, end) == SubSeq(src, start + 1, Min(end, Len(src)))

\* the caller's index was returned for the environment as it is now
Fresh == ~fi.nil /\ ~stale

\* the visibility predicate as the documentation states it
VisibleSpec(cands, decision, az) ==
    /\ cands # <<>>
    /\ IF decision = "all" THEN \A i \in 1..Len(cands) : cands[i] \in az
       ELSE \E i \in 1..Len(cands) : cands[i] \in az

\* C2: a line is visible iff its candidate list is non-empty and, under
\* decision any, some candidate is allowed, under decision all, every
\* candidate is allowed; isVisible of the indexer and isVisibleLine of the
\* projector compute that predicate, hence the same one on the same line.
C2_VisibilityPredicate ==
    \A az \in Authorizers :
        /\ (~fi.nil /\ ~fi.Passthrough) =>
              \A i \in 1..Len(fi.Lines) :
                  isVisible(fi.Lines[i], az)
                      <=> VisibleSpec(fi.Lines[i].Candidates, fi.Lines[i].Decision, az)
        /\ ~CurrentRule.rule.nil =>
              \A i \in 1..Len(SplitLines(source)) :
                  LET line == TrimRight(SplitLines(source)[i], {"CR", "LF"})
                      ev == EvaluateLine(CurrentRule.rule, line)
                  IN  isVisibleLine(CurrentRule.rule, line, az)
                          <=> (~ev.err /\ VisibleSpec(ev.cands, CurrentRule.rule.Decision, az))
        /\ (Fresh /\ ~fi.Passthrough) =>
              \A i \in 1..Len(fi.Lines) :
                  isVisible(fi.Lines[i], az)
                      <=> isVisibleLine(CurrentRule.rule,
                              TrimRight(SourceRange(source, fi.Lines[i].Start,
                                                    fi.Lines[i].End), {"CR", "LF"}),
                              az)

\* an index with a two-candidate line under decision all and a line without
\* candidates has been filtered for an authorizer that allows both candidates
C2_Witness ==
    /\ Fresh /\ ~fi.Passthrough /\ ~out.nil
    /\ Len(fi.Lines) = 2
    /\ fi.Lines[1].Decision = "all" /\ Len(fi.Lines[1].Candidates) = 2
    /\ fi.Lines[2].Candidates = <<>>
    /\ out.az = {Key("row", "r1"), Key("tenant", "t1")}
    /\ out.bytes = SourceRange(source, 0, fi.Lines[1].End)

\* the output FilterToWriter owes for an index: the source bytes [start, end)
\* of its visible lines, in index order
RECURSIVE VisibleRanges(_, _, _)
VisibleRanges(lines, src, az) ==
    IF lines = <<>> THEN <<>>
    ELSE (IF VisibleSpec(Head(lines).Candidates, Head(lines).Decision, az)
          THEN SourceRange(src, Head(lines).Start, Head(lines).End) ELSE <<>>)
         \o VisibleRanges(Tail(lines), src, az)

\* C3: the output of FilterToWriter is exactly the concatenation, in index
\* order, of the source bytes [start, end) of every visible line, terminators
\* as they are in the source, and nothing else is added.
C3_OutputIsVisibleRanges ==
    (~out.nil /\ ~fi.Passthrough) => out.bytes = VisibleRanges(fi.Lines, source, out.az)

\* C4: when no mapping rule applies and the missing-mapper mode is
\* passthrough, BuildOrLoad returns a passthrough index with no lines, and
\* FilterToWriter on a passthrough index emits the source bytes unchanged
\* whatever the authorizer allows.
C4_Passthrough ==
    /\ (~last.nil /\ last.mode = "passthrough" /\ CurrentRule.rule.nil) =>
          (~last.err /\ ~fi.nil /\ fi.Passthrough /\ fi.Lines = <<>>)
    /\ (~out.nil /\ fi.Passthrough) => out.bytes = source

\* a passthrough index of a file with an object in it has been filtered for
\* the authorizer that allows nothing
C4_Witness ==
    /\ ~out.nil /\ ~last.nil /\ last.mode = "passthrough" /\ CurrentRule.rule.nil
    /\ fi.Passthrough /\ fi.Lines = <<>>
    /\ out.az = {}
    /\ Len(source) = 2 /\ source[1] = "P"
    /\ out.bytes = source

NextCache ==
    \/ SourceAppend({"P"}, BOOLEAN, FALSE)
    \/ SourceTruncate(BOOLEAN, FALSE)
    \/ MapWrite(FALSE)
    \/ MapRemove(FALSE)
    \/ BuildOrLoadAct({PathX, PathDotX}, {"passthrough"}, {"idx"}, {0, 1, 2})
    \/ FilterToWriterAct({{Key("row", "r1")}})
    \/ Release
    \/ CacheClear

SpecCache == Init /\ [][NextCache]_vars

\* the outputs made of records of the file as it is, each visible under the
\* rule for the authorizer: the concatenations of a selection of its
\* visible lines, in order
AuthorizedOutputs(src, rule, az) ==
    LET cs == SplitLines(src)
        vis == {i \in 1..Len(cs) :
                   isVisibleLine(rule, TrimRight(cs[i], {"CR", "LF"}), az)}
    IN  {Concat([i \in 1..Len(cs) |-> IF i \in sel THEN cs[i] ELSE <<>>]) :
            sel \in SUBSET vis}

\* C1: whenever a rule applies to the file, every record FilterToWriter
\* emits is a record of the source as it is now that the authorizer allows
\* under the rule resolved now, whatever builds, cache loads, mapping
\* changes and source changes came before.
C1_EmitsOnlyAuthorizedRecords ==
    (~out.nil /\ ~CurrentRule.rule.nil) =>
        out.bytes \in AuthorizedOutputs(source, CurrentRule.rule, out.az)

\* the rule hash BuildOrLoad uses for the file now
CurrentRuleHash ==
    IF CurrentRule.rule.nil THEN <<"passthrough">> ELSE CurrentRule.rule.RuleHash

\* a cache file holds an index made for these five values
KeyEqual(e, formatVersion, sourcePath, size, mt, ruleHash) ==
    /\ e.fv = formatVersion
    /\ e.data.SourcePath = sourcePath
    /\ e.data.Size = size
    /\ e.data.MtimeUnix = mt
    /\ e.data.RuleHash = ruleHash

\* C6: BuildOrLoad with an index directory returns the index of a cache
\* file iff the directory holds one whose format version, source path,
\* size, modification time and rule hash all equal those of the call (the
\* format version after its default), and it returns that file's index;
\* otherwise the index it returns is made from the source as it is.
C6_CacheHitIffKeyEqual ==
    [][(~last'.nil /\ out'.nil) =>
          LET hits == {e \in cache : KeyEqual(e, last'.fv, last'.path, Len(source),
                                              mtime, CurrentRuleHash)}
          IN  /\ ~last'.err
              /\ last'.loaded <=> hits # {}
              /\ last'.loaded => \E e \in hits : fi' = e.data
              /\ ~last'.loaded =>
                    /\ fi'.SourcePath = last'.path
                    /\ fi'.Size = Len(source) /\ fi'.MtimeUnix = mtime
                    /\ fi'.RuleHash = CurrentRuleHash
                    /\ fi'.Passthrough <=> CurrentRule.rule.nil
                    /\ Len(fi'.Lines) = IF fi'.Passthrough THEN 0
                                        ELSE Len(SplitLines(source))]_vars

\* a call with format version 2 and the second spelling of the path, on the
\* file at its later modification time, got its index from the cache
C6_Witness ==
    /\ ~last.nil /\ last.loaded /\ out.nil
    /\ last.fv = 2 /\ last.path = PathDotX
    /\ mtime = 1 /\ Len(source) = 2
    /\ ~fi.Passthrough /\ fi.MtimeUnix = 1

\* ------------------------------------------- one cache file, call by call
\* json.Marshal(fi) as the index processes p writes: an opening brace, the
\* fields (BuiltAt differs from process to process), a closing brace
Marshal(p) == <<"{", IF p = "warm" THEN "fields-warm" ELSE "fields-mount", "}">>

\* json.Unmarshal(b, &fi) succeeds on a complete document only
UnmarshalOK(bytes) ==
    /\ Len(bytes) = 3
    /\ bytes[1] = "{"
    /\ bytes[2] \in {"fields-warm", "fields-mount"}
    /\ bytes[3] = "}"

\* write(2) of chunk at offset off: bytes before a gap read as zero
WriteAt(bytes, off, chunk) ==
    [i \in 1..Max(Len(bytes), off + Len(chunk)) |->
        IF i > off /\ i <= off + Len(chunk) THEN chunk[i - off]
        ELSE IF i <= Len(bytes) THEN bytes[i] ELSE NUL]

\* load(cachePath) in BuildOrLoad: os.ReadFile, then json.Unmarshal; on an
\* error BuildOrLoad goes on to build and save
LoadFile(p) ==
    LET r == IF cfile.nil THEN "absent"
             ELSE IF UnmarshalOK(cfile.bytes) THEN "complete" ELSE "partial"
    IN  /\ spc[p] = "idle"
        /\ obs' = [obs EXCEPT ![p] = r]
        /\ spc' = [spc EXCEPT ![p] = IF r = "complete" THEN "idle" ELSE "build"]
        /\ UNCHANGED <<cfile, soff, idxVars, authVars, mapVars, runVars>>

\* save(cachePath, fi): os.WriteFile opens the path itself with
\* O_WRONLY|O_CREATE|O_TRUNC
SaveOpen(p) ==
    /\ spc[p] = "build"
    /\ cfile' = [nil |-> FALSE, bytes |-> <<>>]
    /\ spc' = [spc EXCEPT ![p] = "write"]
    /\ soff' = [soff EXCEPT ![p] = 0]
    /\ UNCHANGED <<obs, idxVars, authVars, mapVars, runVars>>

\* the writes of os.WriteFile, some bytes at a time, then the close; a file
\* removed meanwhile keeps its path absent
SaveWrite(p) ==
    \E k \in 1..(Len(Marshal(p)) - soff[p]) :
        /\ spc[p] = "write"
        /\ cfile' = IF cfile.nil THEN cfile
                    ELSE [cfile EXCEPT !.bytes =
                             WriteAt(@, soff[p], SubSeq(Marshal(p), soff[p] + 1, soff[p] + k))]
        /\ IF soff[p] + k = Len(Marshal(p))
           THEN spc' = [spc EXCEPT ![p] = "idle"] /\ soff' = [soff EXCEPT ![p] = 0]
           ELSE spc' = spc /\ soff' = [soff EXCEPT ![p] = soff[p] + k]
        /\ UNCHANGED <<obs, idxVars, authVars, mapVars, runVars>>

\* the cache file is removed
RemoveFile ==
    /\ ~cfile.nil
    /\ cfile' = NoFile
    /\ UNCHANGED <<spc, soff, obs, idxVars, authVars, mapVars, runVars>>

NextSave ==
    \/ \E p \in Procs : LoadFile(p)
    \/ \E p \in Procs : SaveOpen(p)
    \/ \E p \in Procs : SaveWrite(p)
    \/ RemoveFile

SpecSave == Init /\ [][NextSave]_vars

\* C7: while one process saves an index and another calls BuildOrLoad for
\* the same cache key, the cache path at every moment either does not exist
\* or holds a complete serialized FileIndex, and no reader finds a partly
\* written file there.
C7_NoPartialCacheFile ==
    /\ cfile.nil \/ UnmarshalOK(cfile.bytes)
    /\ \A p \in Procs : obs[p] # "partial"

\* ------------------------------------------------- the SpiceDB authorizer
\* the candidates handlers pass to IsAllowed: the key, the key with its
\* permission left empty, and a key without an object id
CallKeys ==
    {AuthKey, [AuthKey EXCEPT !.Permission = ""], [AuthKey EXCEPT !.ObjectID = <<>>]}

\* if c.Permission == "" { c.Permission = "read" }
Normalize(c) == IF c.Permission = "" THEN [c EXCEPT !.Permission = "read"] ELSE c

\* a return of IsAllowed to handler t; n tells one return from the next
Ret(t, v, src) == [t |-> t, val |-> v, src |-> src, n |-> 1 - ret.n]

\* IsAllowed that asks the remote whatever the cache holds
IsAllowedStart_noCache(t, c) ==
    /\ pc[t] = "idle"
    /\ overlapped' = (overlapped \/ \E u \in Threads : pc[u] # "idle")
    /\ IF Normalize(c).ObjectType = "" \/ Normalize(c).ObjectID = <<>>
       THEN /\ ret' = Ret(t, FALSE, "invalid")
            /\ UNCHANGED <<pc, reqs>>
       ELSE /\ pc' = [pc EXCEPT ![t] = "remote"]
            /\ reqs' = reqs + 1
            /\ UNCHANGED ret
    /\ UNCHANGED <<azCache, oracle, val, fails, shown, idxVars, saveVars, mapVars, runVars>>

\* IsAllowed(c) up to its return or its remote request: the checks of the
\* candidate and the read of the cache under RLock
IsAllowedStart(t, c) ==
    LET k == Normalize(c)
    IN  /\ pc[t] = "idle"
        /\ overlapped' = (overlapped \/ \E u \in Threads : pc[u] # "idle")
        /\ IF k.ObjectType = "" \/ k.ObjectID = <<>>
           THEN /\ ret' = Ret(t, FALSE, "invalid")
                /\ UNCHANGED <<pc, reqs, shown>>
           ELSE IF azCache[k] # "unset"
           THEN /\ ret' = Ret(t, azCache[k] = "allow", "cache")
                /\ shown' = (shown \/ azCache[k] = "allow")
                /\ UNCHANGED <<pc, reqs>>
           ELSE /\ pc' = [pc EXCEPT ![t] = "remote"]
                /\ reqs' = reqs + 1
                /\ UNCHANGED <<ret, shown>>
        /\ UNCHANGED <<azCache, oracle, val, fails, idxVars, saveVars, mapVars, runVars>>

\* checkRemote returns (allowed, nil): status 200 and a decodable body
RemoteOK(t) ==
    /\ pc[t] = "remote"
    /\ val' = [val EXCEPT ![t] = oracle]
    /\ pc' = [pc EXCEPT ![t] = "store"]
    /\ UNCHANGED <<azCache, oracle, ret, reqs, fails, overlapped, shown, idxVars, saveVars, mapVars, runVars>>

\* a failed remote check that leaves a denial in the cache
RemoteFail_poison(t) ==
    /\ pc[t] = "remote"
    /\ fails < MaxFails
    /\ fails' = fails + 1
    /\ pc' = [pc EXCEPT ![t] = "idle"]
    /\ ret' = Ret(t, FALSE, "error")
    /\ azCache' = [azCache EXCEPT ![AuthKey] = "deny"]
    /\ UNCHANGED <<oracle, val, reqs, overlapped, shown, idxVars, saveVars, mapVars, runVars>>

\* checkRemote returns an error (transport, status other than 200, body
\* that does not decode): IsAllowed returns false
RemoteFail(t) ==
    /\ pc[t] = "remote"
    /\ fails < MaxFails
    /\ fails' = fails + 1
    /\ pc' = [pc EXCEPT ![t] = "idle"]
    /\ ret' = Ret(t, FALSE, "error")
    /\ UNCHANGED <<azCache, oracle, val, reqs, overlapped, shown, idxVars, saveVars, mapVars, runVars>>

\* a.cache[c] = allowed under Lock, and the return
Store(t) ==
    /\ pc[t] = "store"
    /\ azCache' = [azCache EXCEPT ![AuthKey] = IF val[t] THEN "allow" ELSE "deny"]
    /\ pc' = [pc EXCEPT ![t] = "idle"]
    /\ val' = [val EXCEPT ![t] = FALSE]
    /\ ret' = Ret(t, val[t], "remote")
    /\ shown' = (shown \/ val[t])
    /\ UNCHANGED <<oracle, reqs, fails, overlapped, idxVars, saveVars, mapVars, runVars>>

\* the relationship is created in SpiceDB
Grant ==
    /\ ~oracle
    /\ oracle' = TRUE
    /\ shown' = FALSE
    /\ UNCHANGED <<azCache, pc, val, ret, reqs, fails, overlapped, idxVars, saveVars, mapVars, runVars>>

\* the relationship is deleted in SpiceDB
Revoke ==
    /\ oracle
    /\ oracle' = FALSE
    /\ shown' = FALSE
    /\ UNCHANGED <<azCache, pc, val, ret, reqs, fails, overlapped, idxVars, saveVars, mapVars, runVars>>

NextAuth ==
    \/ \E t \in Threads, c \in CallKeys : IsAllowedStart(t, c)
    \/ \E t \in Threads : RemoteOK(t)
    \/ \E t \in Threads : RemoteFail(t)
    \/ \E t \in Threads : Store(t)
    \/ Grant
    \/ Revoke

SpecAuth == Init /\ [][NextAuth]_vars

\* the file with the candidate's records keeps being opened through the
\* running mount, a goroutine that is ready to store its answer does, and a
\* remote check that is tried again and again succeeds in the end
SpecAuthFair ==
    /\ Init
    /\ [][NextAuth]_vars
    /\ \A t \in Threads : WF_vars(IsAllowedStart(t, AuthKey))
    /\ \A t \in Threads : WF_vars(Store(t))
    /\ \A t \in Threads : SF_vars(RemoteOK(t))

\* a handler that was idle has returned in this step
Returned(t) == pc[t] = "idle" /\ ret' # ret /\ ret'.t = t

\* C8: when the remote check for a candidate fails, IsAllowed returns false
\* and leaves the cache as it was, so the cache never holds an entry that no
\* successful check produced, and while there is no entry the next
\* IsAllowed for the candidate returns nothing remembered but asks the
\* remote again.
C8_FailureLeavesCache ==
    /\ [](azCache[AuthKey] # "unset" => reqs > fails)
    /\ [][/\ \A t \in Threads :
                (pc[t] = "remote" /\ pc'[t] = "idle") =>
                    /\ ret' = Ret(t, FALSE, "error")
                    /\ azCache' = azCache
          /\ \A t \in Threads :
                (azCache[AuthKey] = "unset" /\ Returned(t)) => ret'.src = "invalid"
          /\ \A t \in Threads :
                (pc[t] = "idle" /\ pc'[t] # "idle") =>
                    (pc'[t] = "remote" /\ reqs' = reqs + 1)]_vars

\* two calls one after the other have both failed, each with its own remote
\* request, and the cache holds nothing
C8_Witness ==
    /\ ret.src = "error" /\ ~ret.val
    /\ azCache[AuthKey] = "unset"
    /\ fails = 2 /\ reqs = 2
    /\ ~overlapped
    /\ \A t \in Threads : pc[t] = "idle"

\* calls have been made for the key, one after the other, and all returned
SequentialCalls ==
    /\ ~overlapped
    /\ reqs >= 1
    /\ \A t \in Threads : pc[t] = "idle"

\* once an answer is stored every call that starts returns the stored
\* answer and no remote request is issued
ServedFromCache ==
    azCache[AuthKey] # "unset" =>
        /\ reqs' = reqs
        /\ \A t \in Threads : pc[t] = "idle" => pc'[t] = "idle"
        /\ \A t \in Threads :
              Returned(t) =>
                  \/ ret'.src = "invalid"
                  \/ ret'.src = "cache" /\ ret'.val = (azCache[AuthKey] = "allow")

\* C9 as amended: once a remote check has succeeded and its answer is
\* stored, every IsAllowed for the candidate that starts afterwards, from
\* any handler, returns the stored answer and issues no remote request; a
\* sequential series of calls for one key issues one remote request per call
\* until the first succeeds: exactly one successful request, none after it.
C9_OneSuccessfulRequest ==
    /\ [](SequentialCalls =>
            /\ reqs <= fails + 1
            /\ azCache[AuthKey] # "unset" <=> reqs = fails + 1)
    /\ [][ServedFromCache]_vars

\* after one failed and one successful request the other handler is
\* answered from the cache
C9_Witness ==
    /\ SequentialCalls
    /\ reqs = 2 /\ fails = 1
    /\ azCache[AuthKey] = "deny"
    /\ ret = [t |-> "h2", val |-> FALSE, src |-> "cache", n |-> ret.n]

\* C9 as stated: a sequential series of IsAllowed calls for one key causes
\* exactly one remote request.
C9_ExactlyOneRequest == SequentialCalls => reqs = 1

\* C10: after the oracle starts granting the permission on the candidate, a
\* file opened afterwards through the running mount eventually includes the
\* records that depend on it (a call of IsAllowed returns true), unless the
\* grant is withdrawn, also when the candidate was denied earlier.
C10_GrantEventuallyShown == [](oracle => <>(~oracle \/ shown))

\* ------------------------------------------- the projector on every input
\* longest content of a plain or gzip file here, in bytes
MaxStream == 2

\* The files RenderFiltered is called for: root/sub/x.jsonl, x.jsonl.gz,
\* x.jsonl.tar.gz and x.csv; their contents; the entries of an archive.
RenderNames ==
    {<<"x", ".jsonl">>, <<"x", ".jsonl", ".gz">>,
     <<"x", ".jsonl", ".tar", ".gz">>, <<"x", ".csv">>}
Contents ==
    UNION {[1..n -> Byte] : n \in 0..MaxStream}
        \cup {<<"P", "Q", "LF", "P", "LF">>, <<"Q", "CR", "LF", "P", "P", "LF", "P">>}
Entries ==
    {[Typeflag |-> h[1], Name |-> h[2], Data |-> d] :
        h \in {<<"TypeReg", <<"in", "/", "a", ".jsonl">> >>,
               <<"TypeReg", <<"in", "/", "a", ".txt">> >>,
               <<"TypeDir", <<"in", ".jsonl">> >>},
        d \in {<<>>, <<"P", "LF">>, <<"Q">>}}

InitRender ==
    /\ fname \in RenderNames
    /\ IF HasSuffix(fname, <<".tar", ".gz">>)
       THEN /\ source = <<>>
            /\ entries \in {<<>>} \cup {<<e>> : e \in Entries}
                                 \cup {<<e1, e2>> : e1, e2 \in Entries}
       ELSE source \in Contents /\ entries = <<>>
    /\ mapFiles \in {[d \in Dirs |-> IF d = "root" THEN f ELSE NoFile] :
                        f \in RenderFiles \cup {NoFile}}
    /\ InitRest

RenderOptions(mode) ==
    [SourceDir |-> "root", MapperInherit |-> TRUE, MissingMapperMode |-> mode,
     MissingResource |-> "", IndexDir |-> "", FormatVersion |-> 0]

\* one call of RenderFiltered
RenderFilteredAct(modes, azs) ==
    \E mode \in modes, az \in azs :
        LET r == RenderFiltered(fname, RenderOptions(mode), source, entries,
                                mtime, mapFiles, cache, FALSE, az)
        IN  /\ out' = [nil |-> FALSE, err |-> r.err, bytes |-> r.bytes,
                       az |-> az, mode |-> mode]
            /\ cache' = r.dir
            /\ UNCHANGED <<source, mtime, mapFiles, fi, stale, last>>
            /\ UNCHANGED <<saveVars, authVars, mapVars, runVars>>

NextRender == RenderFilteredAct({"deny", "passthrough"}, {{Key("row", "r1")}, Keys})

SpecRender == InitRender /\ [][NextRender]_vars

\* ------------------------------------------------- the mapper on its own
\* The mapping files of root/sub, root and the directory above root are
\* written, replaced and removed, the source file is written, and
\* ResolveRuleForFile is called for root/sub/x.jsonl with root as the
\* source directory.
MapEdit(contents) ==
    \E d \in AllDirs, c \in contents :
        /\ mapFiles[d] # c
        /\ mapFiles' = [mapFiles EXCEPT ![d] = c]
        /\ res' = NoCall
        /\ UNCHANGED <<source, mtime, cache, fi, stale, out, last>>
        /\ UNCHANGED <<eval, fname, entries, saveVars, authVars, runVars>>

MapDelete ==
    \E d \in AllDirs :
        /\ ~mapFiles[d].nil
        /\ mapFiles' = [mapFiles EXCEPT ![d] = NoFile]
        /\ res' = NoCall
        /\ UNCHANGED <<source, mtime, cache, fi, stale, out, last>>
        /\ UNCHANGED <<eval, fname, entries, saveVars, authVars, runVars>>

MapperConfig(inherit, mode) ==
    [SourceDir |-> "root", InheritParent |-> inherit,
     MissingMapperMode |-> mode, DefaultMissingKey |-> ""]

\* one call of ResolveRuleForFile; mapperPath is the mapping file its walk
\* stopped at
ResolveAct(inherits, modes) ==
    \E inherit \in inherits, mode \in modes :
        LET r == ResolveRuleForFile(BaseName, mapFiles, MapperConfig(inherit, mode))
        IN  /\ res' = [nil |-> FALSE, inherit |-> inherit, mode |-> mode,
                       mapperPath |-> FindMapper(mapFiles, "sub", "root"),
                       err |-> r.err, rule |-> r.rule]
            /\ UNCHANGED <<eval, fname, entries, idxVars, saveVars, authVars, runVars>>

NextRules ==
    \/ MapEdit(RuleFiles)
    \/ MapDelete
    \/ source = <<>> /\ SourceAppend({"P"}, {TRUE}, FALSE)
    \/ SourceTruncate({TRUE}, FALSE)
    \/ ResolveAct(BOOLEAN, {"deny", "passthrough"})

SpecRules == InitOn(AllDirs) /\ [][NextRules]_vars

\* ---------------------------------------- properties of the rule resolution
\* a map of a mapping document as yaml.Unmarshal decodes it: its keys with
\* their values, in no order
AsMap(pairs) ==
    [k \in {pairs[i][1] : i \in 1..Len(pairs)} |->
        pairs[CHOOSE i \in 1..Len(pairs) : pairs[i][1] = k][2]]

\* a rule as yaml.Unmarshal decodes it
RuleContent(r) ==
    [Glob |-> r.Glob, Decision |-> r.Decision, ObjectType |-> r.ObjectType,
     Permission |-> r.Permission, MissingResourceKey |-> r.MissingResourceKey,
     Kind |-> r.Mapper.Kind, Pointer |-> r.Mapper.Pointer,
     CanonicalTemplate |-> r.Mapper.CanonicalTemplate,
     Fields |-> AsMap(r.Mapper.Fields),
     FallbackPaths |-> AsMap(r.Mapper.FallbackPaths),
     Emit |-> [i \in 1..Len(r.Mapper.Emit) |->
                 [ObjectType |-> r.Mapper.Emit[i].ObjectType,
                  Permission |-> r.Mapper.Emit[i].Permission,
                  Fields |-> AsMap(r.Mapper.Emit[i].Fields),
                  CanonicalTemplate |-> r.Mapper.Emit[i].CanonicalTemplate]]]

\* the same rules with the same content in the same order
SameRules(r1, r2) ==
    /\ Len(r1) = Len(r2)
    /\ \A i \in 1..Len(r1) : RuleContent(r1[i]) = RuleContent(r2[i])

\* the effective rules of the mapping file of directory d
Effective(files, d, inherit) == loadRules(files, d, inherit, {})

\* C11: the rule_hash of two effective rule sequences is equal iff they hold
\* the same rules with the same content in the same order, maps that differ
\* only in the order of their keys counting as the same content: this holds
\* between any two mapping files of one tree, and between the rules of a
\* mapping file before and after an edit of that file (an edit of the rules
\* changes the hash, restoring the content restores it); the hash a rule was
\* selected with stays the hash of the mapping files while only the source
\* changes.
C11_RuleHashIffSameRules ==
    /\ [](\A d1, d2 \in AllDirs, i1, i2 \in BOOLEAN :
            LET l1 == Effective(mapFiles, d1, i1)
                l2 == Effective(mapFiles, d2, i2)
            IN  (~l1.err /\ ~l2.err) =>
                    (l1.hash = l2.hash <=> SameRules(l1.rules, l2.rules)))
    /\ [][\A d \in AllDirs, i \in BOOLEAN :
            LET l1 == Effective(mapFiles, d, i)
                l2 == Effective(mapFiles', d, i)
            IN  (mapFiles'[d] # mapFiles[d] /\ ~l1.err /\ ~l2.err) =>
                    (l1.hash = l2.hash <=> SameRules(l1.rules, l2.rules))]_vars
    /\ []((~res.nil /\ ~res.rule.nil) =>
            res.rule.RuleHash
                = Effective(mapFiles, res.mapperPath, res.inherit).hash)

\* the mapping files of sub and root hold the same rule with its maps listed
\* in different orders, a rule was selected, and the source was written since
C11_Witness ==
    /\ ~mapFiles["sub"].nil /\ ~mapFiles["root"].nil
    /\ mapFiles["sub"].Rules = <<RuleOwnerAB>>
    /\ mapFiles["root"].Rules = <<RuleOwnerBA>>
    /\ mapFiles["sub"].Extends = "" /\ mapFiles["root"].Extends = ""
    /\ Effective(mapFiles, "sub", TRUE).hash = Effective(mapFiles, "root", TRUE).hash
    /\ ~res.nil /\ ~res.rule.nil
    /\ source # <<>>

\* the mapping files with all but the one of directory d removed
Only(files, d) == [e \in DOMAIN files |-> IF e = d THEN files[e] ELSE NoFile]

RuleName == Base(virtualPathForRule(fname))

\* no mapping file is found for the file
NoMapper == \A d \in {"sub", "root"} : mapFiles[d].nil

\* a mapping file is found and loads, and no rule's glob matches the file
NoMatch ==
    /\ ~NoMapper
    /\ LET d == IF ~mapFiles["sub"].nil THEN "sub" ELSE "root"
           l == Effective(mapFiles, d, TRUE)
       IN  /\ ~l.err
           /\ \A i \in 1..Len(l.rules) :
                \/ l.rules[i].Glob = ""
                \/ /\ ~Match(l.rules[i].Glob, RelToMapper(d, RuleName))
                   /\ ~Match(l.rules[i].Glob, RuleName)

\* C13: when no mapping file is found for a file, or one is found but no
\* rule's glob matches the file, ResolveRuleForFile returns an error under
\* missing-mapper = deny and no rule without an error under passthrough;
\* under deny RenderFiltered (for x.jsonl: BuildOrLoad) fails and no byte of
\* the file is written.
C13_DenyWithoutRule ==
    (~out.nil /\ (NoMapper \/ NoMatch)) =>
        LET rr == ResolveRuleForFile(RuleName, mapFiles,
                                     MapperConfig(TRUE, out.mode))
        IN  /\ rr.rule.nil
            /\ out.mode = "deny" => (rr.err /\ out.err /\ out.bytes = <<>>)
            /\ out.mode = "passthrough" => ~rr.err

\* a mapping file is found, no rule of it matches x.jsonl.gz, and the render
\* of the non-empty file under deny has failed
C13_Witness ==
    /\ ~out.nil /\ NoMatch /\ out.mode = "deny" /\ out.err
    /\ fname = <<"x", ".jsonl", ".gz">> /\ source # <<>>

\* the rules of the mapping file of d followed by those of the files its
\* chain of extends names, n files at most
RECURSIVE ChainRules(_, _, _)
ChainRules(files, d, n) ==
    IF n = 0 \/ files[d].nil THEN <<>>
    ELSE files[d].Rules
         \o (IF files[d].Extends = "" THEN <<>>
             ELSE ChainRules(files, files[d].Extends, n - 1))

\* the rule's non-empty glob matches the file's path relative to the
\* directory d of the mapping file, or its basename
GlobMatches(r, d) ==
    /\ r.Glob # ""
    /\ Match(r.Glob, RelToMapper(d, BaseName)) \/ Match(r.Glob, BaseName)

\* the first rule of rules that matches, if one does
FirstMatch(rules, d) ==
    rules[CHOOSE i \in 1..Len(rules) :
            /\ GlobMatches(rules[i], d)
            /\ \A j \in 1..(i - 1) : ~GlobMatches(rules[j], d)]

\* C14: rule selection returns the first rule, in effective order, whose
\* non-empty glob matches the file's basename or its path relative to the
\* mapping file's directory; the effective order is the local file's rules
\* in file order, followed by the rules of the extended parent chain when
\* inherit is enabled; a matching local rule wins over a matching inherited
\* rule, and with inherit disabled the rules are the local ones only.
C14_FirstMatchInEffectiveOrder ==
    (~res.nil /\ res.mapperPath # None) =>
        LET d == res.mapperPath
            local == mapFiles[d].Rules
            l == Effective(mapFiles, d, res.inherit)
        IN  ~l.err =>
              /\ l.rules = IF res.inherit THEN ChainRules(mapFiles, d, 3) ELSE local
              /\ (\E i \in 1..Len(l.rules) : GlobMatches(l.rules[i], d)) =>
                    (~res.err /\ ~res.rule.nil
                        /\ res.rule.Rule = FirstMatch(l.rules, d))
              /\ (\E i \in 1..Len(local) : GlobMatches(local[i], d)) =>
                    (~res.rule.nil /\ res.rule.Rule = FirstMatch(local, d))
              /\ (~res.inherit /\ ~res.rule.nil) =>
                    \E i \in 1..Len(local) : res.rule.Rule = local[i]
              /\ (~res.inherit
                    /\ \A i \in 1..Len(local) : ~GlobMatches(local[i], d)) =>
                    res.rule.nil

\* with inherit enabled the file of sub, whose own rule does not match,
\* extends the file of root, and the second rule of root's file is selected:
\* its first rule matches sub/x.jsonl relative to root, not relative to sub
C14_Witness ==
    /\ ~res.nil /\ res.inherit /\ res.mapperPath = "sub"
    /\ mapFiles["sub"] = MappingFile(1, "root", <<RuleCsv>>)
    /\ mapFiles["root"] = FileMain
    /\ ~res.rule.nil /\ res.rule.Rule = RuleRowTenant

\* C15: a record that does not parse as a JSON document yields no
\* candidates and no error from EvaluateLine; under a resolved rule the
\* render of x.jsonl or x.jsonl.gz does not fail, such a line is not written,
\* and every other line is written or not by its own visibility.
C15_UnparsableRecordSkipped ==
    (~out.nil /\ fname \in {<<"x", ".jsonl">>, <<"x", ".jsonl", ".gz">>}) =>
        LET rr == ResolveRuleForFile(RuleName, mapFiles,
                                     MapperConfig(TRUE, out.mode))
            cs == SplitLines(source)
            ev(i) == EvaluateLine(rr.rule, TrimRight(cs[i], {"CR", "LF"}))
            parses(i) == Unmarshal(TrimRight(cs[i], {"CR", "LF"})).ok
        IN  (~rr.err /\ ~rr.rule.nil) =>
              /\ ~out.err
              /\ \A i \in 1..Len(cs) :
                    ~parses(i) => ev(i) = [err |-> FALSE, cands |-> <<>>]
              /\ out.bytes =
                    Concat([i \in 1..Len(cs) |->
                              IF /\ parses(i)
                                 /\ ~ev(i).err
                                 /\ VisibleSpec(ev(i).cands, rr.rule.Decision, out.az)
                              THEN cs[i] ELSE <<>>])

\* the line "PQ" does not parse, the line after it is allowed and is the
\* only one written
C15_Witness ==
    /\ ~out.nil /\ ~out.err
    /\ fname = <<"x", ".jsonl">> /\ mapFiles["root"] = FileMain
    /\ source = <<"P", "Q", "LF", "P", "LF">>
    /\ out.az = {Key("row", "r1")}
    /\ out.bytes = <<"P", "LF">>

\* C16: every configuration error is surfaced to the caller: with a mapping
\* file of an unsupported version, with an unknown decision, an invalid
\* missing_resource_key, an extends cycle, a pointer that does not start
\* with "/" or an unsupported mapper kind in the rule of the file,
\* RenderFiltered (for x.jsonl: BuildOrLoad) of a file that holds a record
\* returns an error.
C16_ConfigErrorSurfaced ==
    (/\ ~out.nil
     /\ fname \in {<<"x", ".jsonl">>, <<"x", ".jsonl", ".gz">>}
     /\ mapFiles["root"] \in ConfigErrorFiles
     /\ \E i \in 1..Len(SplitLines(source)) :
            Unmarshal(TrimRight(SplitLines(source)[i], {"CR", "LF"})).ok)
        => out.err

\* ------------------------------------------------------ one evaluation
\* The mapping file of root holds one rule and root/sub/x.jsonl holds one
\* record; the rule is resolved and EvaluateLine is called on the record,
\* again and again.  fields and fallback_paths are Go maps: every call
\* ranges over each of them in an order of its own.
InitEval ==
    /\ source \in {<<b>> : b \in Objects}
    /\ mapFiles \in {[d \in Dirs |-> IF d = "root" THEN f ELSE NoFile] :
                        f \in EvalFiles}
    /\ fname = PathX
    /\ entries = <<>>
    /\ InitRest

\* the orders a range loop visits the pairs of a map in
Orders(pairs) ==
    {[i \in 1..Len(pairs) |-> pairs[p[i]]] : p \in Permutations(1..Len(pairs))}

\* a rule as one call of EvaluateLine ranges over its maps: the fields of
\* every emit entry and the fallback paths, each in an order of its own
Iterations(r) ==
    LET emit == r.Mapper.Emit
        EntryOrders(e) == {[e EXCEPT !.Fields = f] : f \in Orders(e.Fields)}
        RECURSIVE EmitOrders(_)
        EmitOrders(n) ==
            IF n = 0 THEN {<<>>}
            ELSE {Append(es, e) : es \in EmitOrders(n - 1), e \in EntryOrders(emit[n])}
    IN  {[r EXCEPT !.Mapper.Emit = es, !.Mapper.FallbackPaths = fb] :
            es \in EmitOrders(Len(emit)), fb \in Orders(r.Mapper.FallbackPaths)}

\* one call of EvaluateLine on the record, under the rule resolved for the file
EvaluateAct ==
    LET rr == ResolveRuleForFile(Base(fname), mapFiles, MapperConfig(FALSE, "deny"))
    IN  /\ ~rr.err /\ ~rr.rule.nil
        /\ \E r \in Iterations(rr.rule.Rule) :
              LET e == EvaluateLine([rr.rule EXCEPT !.Rule = r], source)
              IN  eval' = [nil |-> FALSE, err |-> e.err, cands |-> e.cands,
                         prev |-> IF eval.nil THEN None ELSE eval.cands]
        /\ UNCHANGED <<res, fname, entries, idxVars, saveVars, authVars, runVars>>

NextEval == EvaluateAct

SpecEval == InitEval /\ [][NextEval]_vars

\* the record of the source file and its id
Record == Doc(source[1])
\* the texts an object id is made of
Pieces(id) == {id[i] : i \in 1..Len(id)}

\* C17: a JSON null resolved for a placeholder is an unresolved value: no
\* candidate of EvaluateLine has an id rendered from the null (the text
\* "<nil>"); under the json_pointer rule with a fallback path the fallback
\* value is the id, and without a fallback there is no candidate.
C17_NullIsUnresolved ==
    (~eval.nil /\ "id" \in DOMAIN Record.v /\ Record.v["id"].t = "null") =>
        /\ \A i \in 1..Len(eval.cands) : Sprintv(JNull) \notin Pieces(eval.cands[i].ObjectID)
        /\ mapFiles["root"].Rules = <<RuleRow>> => eval.cands = <<>>
        /\ (mapFiles["root"].Rules = <<RuleKeyed>> /\ "key" \in DOMAIN Record.v)
                => eval.cands = <<Key("row", Record.v["key"].v)>>

\* C18: an integer-valued JSON number resolved for a placeholder is rendered
\* into the object id as its plain decimal digits: every candidate of a
\* record whose id is the integer n has the digits of n in its id, and under
\* a json_pointer rule on the id the one candidate is row:n.
C18_IntegerIdPlainDigits ==
    (~eval.nil /\ "id" \in DOMAIN Record.v /\ Record.v["id"].t = "num") =>
        /\ \A i \in 1..Len(eval.cands) :
              FormatInt(Record.v["id"].v) \in Pieces(eval.cands[i].ObjectID)
        /\ mapFiles["root"].Rules[1].Mapper.Kind = "json_pointer"
              => eval.cands = <<Key("row", FormatInt(Record.v["id"].v))>>

\* C19: EvaluateLine returns the same candidate list for the same rule and
\* record on every evaluation, whatever order its range loops take.
C19_EvaluateLineDeterministic ==
    (~eval.nil /\ eval.prev # None) => eval.cands = eval.prev

\* what RenderFiltered does on the plain file x.jsonl of the same directory
\* that holds the bytes data, with the options and the authorizer of the
\* last call and no index directory
PlainFiltering(data) ==
    RenderFiltered(PathX, RenderOptions(out.mode), data, <<>>, mtime, mapFiles,
                   {}, FALSE, out.az)
\* a regular entry whose name ends in .jsonl
IsJSONLEntry(hdr) ==
    hdr.Typeflag = "TypeReg" /\ hdr.Name[Len(hdr.Name)] = ".jsonl"

\* C20: for a compressed source RenderFiltered emits exactly what the
\* filtering of a plain file emits on the decoded content under the rule
\* resolved for the path without its compression suffix: for x.jsonl.gz on
\* the decoded stream; for x.jsonl.tar.gz the outputs for the regular
\* entries whose name ends in .jsonl, one after the other in archive order,
\* the other entries contributing nothing.  It fails exactly when the plain
\* filtering fails.
C20_CompressedEqualsPlain ==
    /\ (~out.nil /\ fname = <<"x", ".jsonl", ".gz">>) =>
            /\ out.err = PlainFiltering(source).err
            /\ out.bytes = PlainFiltering(source).bytes
    /\ (~out.nil /\ fname = <<"x", ".jsonl", ".tar", ".gz">>) =>
            /\ out.err = PlainFiltering(<<>>).err
            /\ out.bytes =
                 Concat([i \in 1..Len(entries) |->
                            IF IsJSONLEntry(entries[i]) /\ ~out.err
                            THEN PlainFiltering(entries[i].Data).bytes
                            ELSE <<>>])

\* an archive is rendered: an entry is written, and another entry, not a
\* regular *.jsonl one, holds data that is left out
C20_Witness ==
    /\ ~out.nil /\ ~out.err
    /\ fname = <<"x", ".jsonl", ".tar", ".gz">>
    /\ out.bytes # <<>>
    /\ \E i \in 1..Len(entries) :
          ~IsJSONLEntry(entries[i]) /\ entries[i].Data # <<>>

\* ------------------------------------------- output of a call that went wrong
\* the texts that are concatenations of whole lines of src, in file order
WholeLines(src) ==
    LET lines == SplitLines(src)
        Pick(keep) == Concat([i \in 1..Len(lines) |->
                                 IF i \in keep THEN lines[i] ELSE <<>>])
    IN  {Pick(keep) : keep \in SUBSET (1..Len(lines))}

\* C23: whatever happened to the source after the index was built, the bytes
\* FilterToWriter has written are a concatenation of whole lines of the
\* source: never a part of a line, never a byte the source does not hold.
C23_OnlyWholeSourceLines ==
    ~out.nil => out.bytes \in WholeLines(source)

\* ------------------------------------------ the candidates of one evaluation
\* the rule EvaluateLine was called with
EvalRule ==
    ResolveRuleForFile(Base(fname), mapFiles, MapperConfig(FALSE, "deny")).rule

\* cs without the elements that occur earlier in it
FirstOccurrences(cs) ==
    LET keep == {i \in 1..Len(cs) : \A j \in 1..(i - 1) : cs[j] # cs[i]}
        Nth(k) == CHOOSE i \in keep : Cardinality({j \in keep : j < i}) = k - 1
    IN  [k \in 1..Cardinality(keep) |-> cs[Nth(k)]]

\* C25: the list EvaluateLine returns is the list of the candidates its emit
\* entries produced without the repetitions: no two elements are equal in
\* object type, object id and permission, every candidate produced is in
\* it (two that differ in one of the three parts both are), and the order is
\* that of the first occurrences.
C25_DedupFirstOccurrence ==
    (~eval.nil /\ ~eval.err /\ EvalRule.Rule.Mapper.Kind = "multi_extract") =>
        /\ \A i, j \in 1..Len(eval.cands) : eval.cands[i] = eval.cands[j] => i = j
        /\ \E r \in Iterations(EvalRule.Rule) :
              eval.cands = FirstOccurrences(
                  EmitAll(Record, r.Mapper.FallbackPaths, r.Mapper.Emit, <<>>).cands)

\* the seven entries of RuleEmits have run on the record P: five candidates
\* are left, the row r1 with both permissions among them
C25_Witness ==
    /\ ~eval.nil /\ source = <<"P">> /\ mapFiles["root"].Rules = <<RuleEmits>>
    /\ Len(eval.cands) = 5
    /\ eval.cands[1] = Key("row", "r1")
    /\ eval.cands[2] = [Key("row", "r1") EXCEPT !.Permission = "write"]
    /\ eval.cands[3] = Key("tenant", "r1")
    /\ eval.cands[4] = Key("row", "t1")

\* the rule r with the object_type and permission of the rule filled into
\* the emit entries that set none of their own
WithRuleDefaults(r) ==
    LET emit == r.Mapper.Emit
    IN  [r EXCEPT !.Mapper.Emit =
            [i \in 1..Len(emit) |->
                [emit[i] EXCEPT
                    !.ObjectType = IF emit[i].ObjectType = "" THEN r.ObjectType
                                   ELSE emit[i].ObjectType,
                    !.Permission = IF emit[i].Permission = "" THEN r.Permission
                                   ELSE emit[i].Permission]]]

\* C29: the object_type and permission of the rule are the defaults of
\* every candidate: the candidate of a json_pointer rule carries them, an
\* emit entry of a multi_extract rule that sets no object_type or no
\* permission yields its candidate with those of the rule, and a permission
\* empty at both levels is "read".
C29_RuleDefaultsApply ==
    (~eval.nil /\ ~eval.err) =>
        /\ EvalRule.Rule.Mapper.Kind = "json_pointer" =>
              \A i \in 1..Len(eval.cands) :
                  /\ eval.cands[i].ObjectType = EvalRule.Rule.ObjectType
                  /\ eval.cands[i].Permission =
                        IF EvalRule.Rule.Permission = "" THEN "read"
                        ELSE EvalRule.Rule.Permission
        /\ EvalRule.Rule.Mapper.Kind = "multi_extract" =>
              \E r \in Iterations(EvalRule.Rule) :
                  eval.cands =
                      EvaluateLine([EvalRule EXCEPT !.Rule = WithRuleDefaults(r)],
                                   source).cands

\* the text the fallback pointers ptrs give: that of the first, in the
\* declared order, whose value trimmed of white space is not empty
FallbackText(doc, ptrs) ==
    LET Text(i) == IF resolveRootPointer(doc, ptrs[i]).ok
                   THEN TrimSpace(Sprintv(resolveRootPointer(doc, ptrs[i]).val))
                   ELSE ""
        hits == {i \in 1..Len(ptrs) : Text(i) # ""}
    IN  IF hits = {} THEN ""
        ELSE Text(CHOOSE i \in hits : \A j \in hits : i <= j)

\* the pieces of a template after substitution: a placeholder takes the text
\* of its value when the entry collected one, else the text of its fallback
\* pointers, and stays unresolved when neither gives one
Filled(doc, fallback, tmpl, vals) ==
    [i \in 1..Len(tmpl) |->
        IF ~tmpl[i].ph THEN [ok |-> TRUE, s |-> tmpl[i].s]
        ELSE IF tmpl[i].s \in DOMAIN vals
        THEN [ok |-> TRUE, s |-> Sprintv(vals[tmpl[i].s])]
        ELSE LET ks == {k \in 1..Len(fallback) : fallback[k][1] = tmpl[i].s}
                 t == IF ks = {} THEN ""
                      ELSE FallbackText(doc, fallback[CHOOSE k \in ks : TRUE][2])
             IN  [ok |-> t # "", s |-> t]]

\* the candidates the emit entries of r owe for the record doc
Owed(doc, r) ==
    LET fallback == r.Mapper.FallbackPaths
        Entry(e) ==
            LET f == Filled(doc, fallback, e.CanonicalTemplate,
                            CollectFields(doc, e.Fields, EmptyVals).vals)
                text == [i \in 1..Len(f) |-> f[i].s]
                id == IF Len(text) > 0 /\ text[1] = e.ObjectType \o ":"
                      THEN Tail(text) ELSE text
            IN  [ok |-> (\A i \in 1..Len(f) : f[i].ok) /\ id # <<>>,
                 cand |-> [ObjectType |-> e.ObjectType, ObjectID |-> id,
                           Permission |-> IF e.Permission = "" THEN "read"
                                          ELSE e.Permission]]
        all == [i \in 1..Len(r.Mapper.Emit) |-> Entry(r.Mapper.Emit[i])]
        made == SelectSeq(all, LAMBDA x : x.ok)
    IN  [i \in 1..Len(made) |-> made[i].cand]

RECURSIVE ExtendsChain(_, _, _)
ExtendsChain(files, d, n) ==
    IF n = 0 THEN <<>>
    ELSE <<d>> \o (IF files[d].nil \/ files[d].Extends = "" THEN <<>>
                   ELSE ExtendsChain(files, files[d].Extends, n - 1))

\* a chain that comes back to a file it has been through
Revisits(c) == \E i, j \in 1..Len(c) : i < j /\ c[i] = c[j]

\* C27: with inherit enabled loadRules comes to an end on every graph of
\* extends references; started at any mapping file, it returns an error and
\* no rules when the chain from that file comes back to a file it has been
\* through, and when the chain ends at a file without extends it returns
\* the rules of the files of the chain, in chain order.  The same holds of
\* the call ResolveRuleForFile makes for the mapping file it found.
C27_ExtendsCycleRejected ==
    /\ \A d \in AllDirs :
          LET c == ExtendsChain(mapFiles, d, Cardinality(AllDirs) + 1)
              r == loadRules(mapFiles, d, TRUE, {})
          IN  ~mapFiles[d].nil =>
                /\ Revisits(c) => (r.err /\ r.rules = <<>>)
                /\ (~Revisits(c) /\ \A i \in 1..Len(c) : ~mapFiles[c[i]].nil) =>
                      /\ ~r.err
                      /\ r.rules = Concat([i \in 1..Len(c) |-> mapFiles[c[i]].Rules])
    /\ (~res.nil /\ res.inherit /\ res.mapperPath \in AllDirs
           /\ Revisits(ExtendsChain(mapFiles, res.mapperPath, Cardinality(AllDirs) + 1)))
          => (res.err /\ res.rule.nil)

\* ResolveRuleForFile has run with inherit on a tree whose mapping files
\* extend sub -> root -> top -> root, and has failed
C27_Witness ==
    /\ ~res.nil /\ res.inherit /\ res.err
    /\ ExtendsChain(mapFiles, "sub", 4) = <<"sub", "root", "top", "root">>

\* ------------------------------------------------ the file-backed authorizer
\* a CandidateKey as encoding/json decodes it: a member the entry does not
\* have is the empty string
PKey(t, id, p) == [ObjectType |-> t, ObjectID |-> <<id>>, Permission |-> p]

PermEntries ==
    {PKey("row", "r1", ""), PKey("row", "r1", "write"),
     PKey("row", "r2", "read"), PKey("tenant", "t1", "")}

\* the permissions files: none at the path, or an allow list
PermFiles ==
    {NoFile} \cup {[nil |-> FALSE, Allow |-> a] :
                     a \in {<<>>} \cup {<<e>> : e \in PermEntries}
                              \cup {<<e1, e2>> : e1, e2 \in PermEntries}}

\* the keys IsAllowed is called with
AskKeys ==
    {PKey("row", "r1", ""), PKey("row", "r1", "read"), PKey("row", "r1", "write"),
     PKey("row", "r2", "read"), PKey("row", "r2", "write"),
     PKey("tenant", "t1", "read"), PKey("row", "r3", "read")}

\* NewDenyAll
NewDenyAll == [nil |-> FALSE, err |-> FALSE, kind |-> "denyAll", allowed |-> {}]

\* NewFromPermissionsFile that stores every entry as it is written
NewFromPermissionsFile_asWritten(file) ==
    IF file.nil THEN [nil |-> FALSE, err |-> TRUE, kind |-> "set", allowed |-> {}]
    ELSE [nil |-> FALSE, err |-> FALSE, kind |-> "set",
          allowed |-> {file.Allow[i] : i \in 1..Len(file.Allow)}]

\* NewFromPermissionsFile: the entries of allow, each with permission "read"
\* when it has none, as the keys of a map
NewFromPermissionsFile(file) ==
    IF file.nil THEN [nil |-> FALSE, err |-> TRUE, kind |-> "set", allowed |-> {}]
    ELSE [nil |-> FALSE, err |-> FALSE, kind |-> "set",
          allowed |-> {IF file.Allow[i].Permission = ""
                       THEN [file.Allow[i] EXCEPT !.Permission = "read"]
                       ELSE file.Allow[i] : i \in 1..Len(file.Allow)}]

\* newAuthorizer for the backend "file": deny-all without --permissions-file
newAuthorizer(withFile, file) ==
    IF ~withFile THEN NewDenyAll ELSE NewFromPermissionsFile(file)

\* Authorizer.IsAllowed of the two implementations of this backend
AuthorizerIsAllowed(a, c) ==
    IF a.kind = "denyAll" THEN FALSE ELSE IsAllowed(a.allowed, c)

NewAuthorizerAct ==
    \E withFile \in BOOLEAN :
        /\ authz' = newAuthorizer(withFile, permFile)
        /\ UNCHANGED <<permFile, answer, fsVars, cmdVars>>
        /\ UNCHANGED <<idxVars, saveVars, authVars, mapVars>>

IsAllowedAct ==
    \E c \in AskKeys :
        /\ ~authz.nil /\ ~authz.err
        /\ answer' = [nil |-> FALSE, kind |-> authz.kind, key |-> c,
                      val |-> AuthorizerIsAllowed(authz, c)]
        /\ UNCHANGED <<permFile, authz, fsVars, cmdVars>>
        /\ UNCHANGED <<idxVars, saveVars, authVars, mapVars>>

InitPerm ==
    /\ permFile \in PermFiles
    /\ authz = NoCall
    /\ answer = NoCall
    /\ dirents = {} /\ node = NoCall /\ listing = NoCall /\ mnt = NoCall
    /\ argv = NoCall /\ code = NoCall
    /\ source = <<>>
    /\ mapFiles = [d \in Dirs |-> NoFile]
    /\ fname = PathX
    /\ entries = <<>>
    /\ InitBase

NextPerm ==
    \/ NewAuthorizerAct
    \/ IsAllowedAct

SpecPerm == InitPerm /\ [][NextPerm]_vars

\* the key is listed under allow, an entry without a permission standing for
\* the permission "read"
Listed(file, c) ==
    \E i \in 1..Len(file.Allow) :
        /\ file.Allow[i].ObjectType = c.ObjectType
        /\ file.Allow[i].ObjectID = c.ObjectID
        /\ \/ file.Allow[i].Permission # "" /\ file.Allow[i].Permission = c.Permission
           \/ file.Allow[i].Permission = "" /\ c.Permission = "read"

\* C26: the authorizer built from a permissions file allows a key exactly
\* when the key is listed under allow in the file, an entry without a
\* permission counting as permission "read"; the deny-all authorizer denies
\* every key.
C26_AllowedIffListed ==
    ~answer.nil =>
        answer.val = (answer.kind = "set" /\ Listed(permFile, answer.key))

\* an entry without a permission has allowed the key with permission "read"
C26_Witness ==
    /\ ~answer.nil /\ answer.kind = "set" /\ answer.val
    /\ answer.key = PKey("row", "r1", "read")
    /\ permFile.Allow = <<PKey("row", "r1", "")>>

\* the deny-all authorizer has been asked for a key
C26_DenyAllAsked == ~answer.nil /\ answer.kind = "denyAll"

\* ------------------------------------------------------- the command line
Subcommands == {"mount", "render", "warm-index", "stats", "validate-flags"}

\* One run of the program: the word after the program name ("" when there
\* is none) and, for each step of the subcommand that can fail, whether it
\* fails in this run: fs.Parse, the validation of the flags (validate, and
\* the required --file of render and --mount of stats), newAuthorizer, and
\* the work itself (MountAndServe, RenderFiltered, the walk of the tree).
Runs ==
    [cmd : Subcommands \cup {"", "bogus"},
     parseErr : BOOLEAN, validateErr : BOOLEAN, authErr : BOOLEAN, runErr : BOOLEAN]

\* runValidate, runWarmIndex, runMount, runStats, runRender: the error
\* returned, TRUE for a non-nil one
runValidate(a) == a.parseErr \/ a.validateErr
runWarmIndex(a) == a.parseErr \/ a.validateErr \/ a.runErr
runMount(a) == a.parseErr \/ a.validateErr \/ a.authErr \/ a.runErr
runStats(a) == a.parseErr \/ a.validateErr \/ a.runErr
runRender(a) == a.parseErr \/ a.validateErr \/ a.authErr \/ a.runErr

\* main: the exit code of the process
main(a) ==
    IF a.cmd = "" THEN 2
    ELSE IF a.cmd = "validate-flags" THEN (IF runValidate(a) THEN 2 ELSE 0)
    ELSE IF a.cmd = "warm-index" THEN (IF runWarmIndex(a) THEN 2 ELSE 0)
    ELSE IF a.cmd = "mount" THEN (IF runMount(a) THEN 3 ELSE 0)
    ELSE IF a.cmd = "stats" THEN (IF runStats(a) THEN 2 ELSE 0)
    ELSE IF a.cmd = "render" THEN (IF runRender(a) THEN 2 ELSE 0)
    ELSE 2

MainAct ==
    /\ code = NoCall
    /\ code' = [nil |-> FALSE, status |-> main(argv)]
    /\ UNCHANGED <<argv, permVars, fsVars>>
    /\ UNCHANGED <<idxVars, saveVars, authVars, mapVars>>

InitMain ==
    /\ argv \in Runs
    /\ code = NoCall
    /\ permFile = NoFile /\ authz = NoCall /\ answer = NoCall
    /\ dirents = {} /\ node = NoCall /\ listing = NoCall /\ mnt = NoCall
    /\ source = <<>>
    /\ mapFiles = [d \in Dirs |-> NoFile]
    /\ fname = PathX
    /\ entries = <<>>
    /\ InitBase

NextMain == MainAct

SpecMain == InitMain /\ [][NextMain]_vars

\* the run has a usage or configuration error: no or an unknown subcommand,
\* flags that do not parse or do not validate, or, for the subcommands that
\* build an authorizer, an authorizer that cannot be built
UsageOrConfigError(a) ==
    \/ a.cmd \notin Subcommands
    \/ a.parseErr
    \/ a.validateErr
    \/ a.cmd \in {"mount", "render"} /\ a.authErr

\* C24: a usage or configuration error of any subcommand ends the process
\* with exit code 2; exit code 3 comes only from a runtime failure of the
\* mount of the mount subcommand; a run without an error exits 0.
C24_ExitCodes ==
    ~code.nil =>
        /\ UsageOrConfigError(argv) => code.status = 2
        /\ code.status = 3 =>
              (argv.cmd = "mount" /\ ~UsageOrConfigError(argv) /\ argv.runErr)
        /\ (~UsageOrConfigError(argv) /\ ~argv.runErr) => code.status = 0

\* ------------------------------------------------- the filesystem surface
\* The names of the source directory, in the order of os.ReadDir (sorted by
\* file name): a directory, a record file in its three forms, and a file
\* that is no record file, plain and compressed.
NameOrder ==
    << <<"d">>, <<"x", ".csv">>, <<"x", ".csv", ".gz">>, <<"x", ".jsonl">>,
       <<"x", ".jsonl", ".gz">>, <<"x", ".jsonl", ".tar", ".gz">> >>
FsNames == {NameOrder[i] : i \in 1..Len(NameOrder)}
IsDirName(name) == name = <<"d">>

\* what a file decodes to: the bytes of a plain file, the stream inside a
\* gzip file, the entries inside an archive
Decoded(name) ==
    IF name = <<"x", ".jsonl">> THEN <<"P", "LF", "Q", "LF">>
    ELSE IF name = <<"x", ".jsonl", ".gz">> THEN <<"Q", "LF", "P", "LF">>
    ELSE IF name = <<"x", ".jsonl", ".tar", ".gz">> THEN <<"P", "LF">>
    ELSE <<"Q", "LF">>
ArchiveOf(name) ==
    IF HasSuffix(name, <<".tar", ".gz">>)
    THEN <<[Typeflag |-> "TypeReg", Name |-> <<"in", "/", "a", ".jsonl">>,
            Data |-> Decoded(name)]>>
    ELSE <<>>

\* os.ReadFile(name): the bytes on disk; a compressed file holds the
\* compressed form of what it decodes to
ReadFile(name) ==
    IF HasSuffix(name, <<".tar", ".gz">>) THEN <<"gzip", "tar">> \o Decoded(name)
    ELSE IF HasSuffix(name, <<".gz">>) THEN <<"gzip">> \o Decoded(name)
    ELSE Decoded(name)

\* os.ReadDir on the directory holding the names of the set
ReadDir(names) == SelectSeq(NameOrder, LAMBDA n : n \in names)

\* projector.VirtualJSONLName(name): the virtual name, and whether the file
\* is projected from a compressed one
VirtualJSONLName(name) ==
    LET lower == LowerPath(name)
    IN  IF HasSuffix(lower, <<".jsonl">>) THEN [name |-> name, projected |-> FALSE]
        ELSE IF HasSuffix(lower, <<".jsonl", ".gz">>)
        THEN [name |-> TrimSuffix(name, <<".gz">>), projected |-> TRUE]
        ELSE IF HasSuffix(lower, <<".jsonl", ".tar", ".gz">>)
        THEN [name |-> TrimSuffix(name, <<".tar", ".gz">>), projected |-> TRUE]
        ELSE [name |-> name, projected |-> FALSE]

\* out[name] = entry
Put(m, name, entry) ==
    [n \in DOMAIN m \cup {name} |-> IF n = name THEN entry ELSE m[n]]

\* resolveEntries in which every file takes the place of an earlier one
RECURSIVE resolveEntries_lastWins(_, _)
resolveEntries_lastWins(dirEntries, acc) ==
    IF dirEntries = <<>> THEN acc
    ELSE LET Step(e, v) ==
                 IF IsDirName(e)
                 THEN Put(acc, e, [name |-> e, source |-> e, isDir |-> TRUE,
                                   projected |-> FALSE])
                 ELSE Put(acc, v.name, [name |-> v.name, source |-> e,
                                        isDir |-> FALSE, projected |-> v.projected])
         IN  resolveEntries_lastWins(Tail(dirEntries),
                            Step(Head(dirEntries), VirtualJSONLName(Head(dirEntries))))

\* dirNode.resolveEntries: the loop over the entries os.ReadDir returned,
\* acc being the map built so far
RECURSIVE resolveEntries(_, _)
resolveEntries(dirEntries, acc) ==
    IF dirEntries = <<>> THEN acc
    ELSE LET Step(e, v) ==
                 IF IsDirName(e)
                 THEN Put(acc, e, [name |-> e, source |-> e, isDir |-> TRUE,
                                   projected |-> FALSE])
                 ELSE IF v.name \in DOMAIN acc /\ ~acc[v.name].projected
                 THEN acc
                 ELSE Put(acc, v.name, [name |-> v.name, source |-> e,
                                        isDir |-> FALSE, projected |-> v.projected])
         IN  resolveEntries(Tail(dirEntries),
                            Step(Head(dirEntries), VirtualJSONLName(Head(dirEntries))))

\* fileData that goes by the suffix of the source alone
fileData_bySuffix(ent, cfg, files, az) ==
    IF ~HasSuffix(LowerPath(ent.source), <<".jsonl">>)
    THEN [err |-> FALSE, data |-> ReadFile(ent.source)]
    ELSE LET Rendered(r) == [err |-> r.err, data |-> r.bytes]
         IN  Rendered(RenderFiltered(ent.source, cfg, Decoded(ent.source),
                                     ArchiveOf(ent.source), 0, files, {}, FALSE, az))

\* dirNode.fileData(ent): the bytes of a file that is neither projected nor
\* a .jsonl file, and what RenderFiltered writes for every other one
fileData(ent, cfg, files, az) ==
    IF ~ent.projected /\ ~HasSuffix(LowerPath(ent.source), <<".jsonl">>)
    THEN [err |-> FALSE, data |-> ReadFile(ent.source)]
    ELSE LET Rendered(r) == [err |-> r.err, data |-> r.bytes]
         IN  Rendered(RenderFiltered(ent.source, cfg, Decoded(ent.source),
                                     ArchiveOf(ent.source), 0, files, {}, FALSE, az))

\* dirNode.Lookup(name) in the directory holding the names
Lookup(names, name, cfg, files, az) ==
    LET Result(errno, ent, data) ==
            [nil |-> FALSE, asked |-> name, errno |-> errno, isDir |-> ent.isDir,
             source |-> ent.source, data |-> data]
        File(ent, d) ==
            IF d.err THEN Result("EIO", ent, <<>>) ELSE Result("", ent, d.data)
        Node(ent) ==
            IF ent.isDir THEN Result("", ent, <<>>)
            ELSE File(ent, fileData(ent, cfg, files, az))
        Find(ents) ==
            IF name \notin DOMAIN ents
            THEN Result("ENOENT", [isDir |-> FALSE, source |-> <<>>], <<>>)
            ELSE Node(ents[name])
    IN  Find(resolveEntries(ReadDir(names), <<>>))

\* dirNode.Readdir: the entries in the order of their names
Readdir(names) ==
    LET DirEntry(e) ==
            [Name |-> e.name, Mode |-> IF e.isDir THEN "S_IFDIR" ELSE "S_IFREG"]
        Stream(ents, sorted) == [i \in 1..Len(sorted) |-> DirEntry(ents[sorted[i]])]
        List(ents) == Stream(ents, SelectSeq(NameOrder, LAMBDA n : n \in DOMAIN ents))
    IN  List(resolveEntries(ReadDir(names), <<>>))

LookupAct ==
    \E name \in FsNames \cup {<<"z">>} :
        /\ node' = Lookup(dirents, name, mnt.cfg, mapFiles, authz.allowed)
        /\ UNCHANGED <<dirents, listing, mnt, permVars, cmdVars>>
        /\ UNCHANGED <<idxVars, saveVars, authVars, mapVars>>

ReaddirAct ==
    /\ listing' = [nil |-> FALSE, entries |-> Readdir(dirents)]
    /\ UNCHANGED <<dirents, node, mnt, permVars, cmdVars>>
    /\ UNCHANGED <<idxVars, saveVars, authVars, mapVars>>

\* MountAndServe about to start: where it is (pc), whether ctx is cancelled,
\* whether the kernel holds the mount, how many files readers hold open in
\* it, the calls of server.Unmount so far, the goroutine that waits for the
\* server, and whether done is closed
Mounting(cfg) ==
    [nil |-> FALSE, cfg |-> cfg, pc |-> "start", ret |-> "", ctxDone |-> FALSE,
     mounted |-> FALSE, open |-> 0, unmounts |-> 0, waiter |-> "none",
     done |-> FALSE]

\* a server that has mounted and serves
Serving(cfg) ==
    [Mounting(cfg) EXCEPT !.pc = "select", !.mounted = TRUE, !.waiter = "wait"]

InitFS ==
    /\ dirents \in SUBSET FsNames
    /\ node = NoCall
    /\ listing = NoCall
    /\ \E mode \in {"deny", "passthrough"} : mnt = Serving(RenderOptions(mode))
    /\ authz = [nil |-> FALSE, err |-> FALSE, kind |-> "set",
                allowed |-> {Key("row", "r1"), Key("tenant", "t1")}]
    /\ permFile = NoFile /\ answer = NoCall
    /\ argv = NoCall /\ code = NoCall
    /\ source = <<>>
    /\ mapFiles \in {[d \in Dirs |-> IF d = "root" THEN f ELSE NoFile] :
                        f \in {NoFile, MappingFile(1, "", <<RuleRowTenant>>)}}
    /\ fname = PathX
    /\ entries = <<>>
    /\ InitBase

NextFS ==
    \/ LookupAct
    \/ ReaddirAct

SpecFS == InitFS /\ [][NextFS]_vars

\* the names under which the source tree holds record files
IsRecordFile(name) ==
    \/ HasSuffix(name, <<".jsonl">>)
    \/ HasSuffix(name, <<".jsonl", ".gz">>)
    \/ HasSuffix(name, <<".jsonl", ".tar", ".gz">>)
IsCompressedRecordFile(name) == IsRecordFile(name) /\ ~HasSuffix(name, <<".jsonl">>)

\* the filtered projection of a record file: what the Indexer writes for a
\* plain file, and the Projector for a compressed one
Projection(name) ==
    RenderFiltered(name, mnt.cfg, Decoded(name), ArchiveOf(name), 0, mapFiles, {},
                   FALSE, authz.allowed)

VirtualName(name) ==
    IF HasSuffix(name, <<".jsonl", ".tar", ".gz">>)
    THEN SubSeq(name, 1, Len(name) - 2)
    ELSE IF HasSuffix(name, <<".jsonl", ".gz">>) THEN SubSeq(name, 1, Len(name) - 1)
    ELSE name

\* the orders a directory holding the names can be read in
ReadOrders(names) ==
    {[i \in 1..Cardinality(names) |-> o[i]] :
        o \in {f \in [1..Cardinality(names) -> names] :
                  \A i, j \in 1..Cardinality(names) : i # j => f[i] # f[j]}}

\* C22: a listing holds the virtual name of every file of the directory,
\* each name once; when x.jsonl is there together with a compressed form of
\* it, the entry x.jsonl and the content served for it are those of the
\* uncompressed file, in whatever order the directory is read.
C22_ListingCoalesces ==
    /\ ~listing.nil =>
          /\ \A i, j \in 1..Len(listing.entries) :
                listing.entries[i].Name = listing.entries[j].Name => i = j
          /\ {listing.entries[i].Name : i \in 1..Len(listing.entries)}
                = {VirtualName(f) : f \in dirents}
    /\ (<<"x", ".jsonl">> \in dirents /\ ~listing.nil) =>
          \A o \in ReadOrders(dirents) :
              resolveEntries(o, <<>>)[<<"x", ".jsonl">>].source = <<"x", ".jsonl">>
    /\ (~node.nil /\ node.asked = <<"x", ".jsonl">> /\ <<"x", ".jsonl">> \in dirents) =>
          /\ node.source = <<"x", ".jsonl">>
          /\ node.errno = "" => node.data = Projection(<<"x", ".jsonl">>).bytes

\* the directory holds x.jsonl and both compressed forms of it, it has been
\* listed, and x.jsonl has been looked up
C22_Witness ==
    /\ {<<"x", ".jsonl">>, <<"x", ".jsonl", ".gz">>,
         <<"x", ".jsonl", ".tar", ".gz">>} \subseteq dirents
    /\ ~listing.nil /\ Len(listing.entries) = Cardinality(dirents) - 2
    /\ ~node.nil /\ node.asked = <<"x", ".jsonl">> /\ node.errno = ""

\* ------------------------------------------------------------ MountAndServe
\* a step of MountAndServe or of its environment: mnt changes, nothing else
MountStep(m) ==
    /\ mnt' = m
    /\ UNCHANGED <<dirents, node, listing, permVars, cmdVars>>
    /\ UNCHANGED <<idxVars, saveVars, authVars, mapVars>>

\* fs.Mount: an error is returned at once; otherwise the mount is there and
\* the goroutine that waits for the server is started
Mount ==
    /\ mnt.pc = "start"
    /\ \E ok \in BOOLEAN :
          MountStep(IF ok
                    THEN [mnt EXCEPT !.pc = "select", !.mounted = TRUE, !.waiter = "wait"]
                    ELSE [mnt EXCEPT !.pc = "returned", !.ret = "err"])

\* the signal arrives: ctx is cancelled
Cancel ==
    /\ ~mnt.ctxDone
    /\ MountStep([mnt EXCEPT !.ctxDone = TRUE])

\* a reader opens a file of the mount, or closes one it holds
OpenFile ==
    /\ mnt.mounted /\ mnt.open < MaxOpen
    /\ MountStep([mnt EXCEPT !.open = @ + 1])
CloseFile ==
    /\ mnt.open > 0
    /\ MountStep([mnt EXCEPT !.open = @ - 1])

\* somebody else unmounts the directory; the kernel refuses while it is busy
ExternalUnmount ==
    /\ mnt.mounted /\ mnt.open = 0
    /\ MountStep([mnt EXCEPT !.mounted = FALSE])

\* go func() { server.Wait(); close(done) }()
WaiterDone ==
    /\ mnt.waiter = "wait" /\ ~mnt.mounted
    /\ MountStep([mnt EXCEPT !.waiter = "exit", !.done = TRUE])

\* select: case <-ctx.Done()
SelectCtx ==
    /\ mnt.pc = "select" /\ mnt.ctxDone
    /\ MountStep([mnt EXCEPT !.pc = "unmount"])

\* select: case <-done: return nil
SelectDone ==
    /\ mnt.pc = "select" /\ mnt.done
    /\ MountStep([mnt EXCEPT !.pc = "returned", !.ret = "nil"])

\* _ = server.Unmount(): the mount goes unless it is busy, in which case
\* the error is dropped
Unmount ==
    /\ mnt.pc = "unmount"
    /\ MountStep([mnt EXCEPT !.pc = "waitDone", !.unmounts = @ + 1,
                             !.mounted = IF mnt.open = 0 THEN FALSE ELSE @])

\* <-done; return nil
WaitDone ==
    /\ mnt.pc = "waitDone" /\ mnt.done
    /\ MountStep([mnt EXCEPT !.pc = "returned", !.ret = "nil"])

\* fusefs.Config as runMount fills it in
MountConfig(mode, allowOther) ==
    [SourceDir |-> "root", MountDir |-> "mnt", MapperInherit |-> TRUE,
     MissingMapperMode |-> mode, MissingResource |-> "", IndexDir |-> "",
     FormatVersion |-> 0, AllowOther |-> allowOther, ReadOnly |-> TRUE]

InitMount ==
    /\ \E mode \in {"deny", "passthrough"}, allowOther \in BOOLEAN :
          mnt = Mounting(MountConfig(mode, allowOther))
    /\ dirents = {} /\ node = NoCall /\ listing = NoCall
    /\ permFile = NoFile /\ authz = NoCall /\ answer = NoCall
    /\ argv = NoCall /\ code = NoCall
    /\ source = <<>>
    /\ mapFiles = [d \in Dirs |-> NoFile]
    /\ fname = PathX
    /\ entries = <<>>
    /\ InitBase

NextMount ==
    \/ Mount
    \/ Cancel
    \/ OpenFile
    \/ CloseFile
    \/ ExternalUnmount
    \/ WaiterDone
    \/ SelectCtx
    \/ SelectDone
    \/ Unmount
    \/ WaitDone

SpecMount == InitMount /\ [][NextMount]_vars

\* The goroutines of the process are scheduled fairly, and readers close
\* the files they hold; when the signal comes, and whether anybody else
\* unmounts the directory, is up to the environment.
SpecMountFair ==
    /\ SpecMount
    /\ WF_vars(Mount) /\ WF_vars(SelectCtx) /\ WF_vars(SelectDone)
    /\ WF_vars(Unmount) /\ WF_vars(WaitDone) /\ WF_vars(WaiterDone)
    /\ WF_vars(CloseFile)

\* C28: once the context is cancelled, MountAndServe returns in the end.
C28_CancelLeadsToReturn == mnt.ctxDone ~> mnt.pc = "returned"

\* MountAndServe does not return without the unmount having been asked for
\* or the server having ended by itself
C28_UnmountRequested ==
    (mnt.pc = "returned" /\ mnt.ret = "nil") => (mnt.unmounts > 0 \/ mnt.done)
====
